---- MODULE Spec2Model ----
(***************************************************************************)
(* Model of the data pipeline of the gasoline dashboard (src/utils.py,     *)
(* src/app.py): the station reconciler, the price cleaner and the          *)
(* aggregates computed from the cleaned tables.                            *)
(*                                                                         *)
(* A table (pandas DataFrame) is a sequence of records, one per row, in    *)
(* row order.  A numeric cell is an integer; NaN is the missing value and  *)
(* NonNumeric a raw text cell that is not a number.  A real-valued result  *)
(* (a percentile, a mean, a deviation) is an exact fraction [n, d] with    *)
(* d > 0 in lowest terms; [n |-> 0, d |-> 0] is the float NaN and          *)
(* [n |-> 1, d |-> 0], [n |-> -1, d |-> 0] are the floats +inf and -inf.   *)
(***************************************************************************)
EXTENDS Integers, Sequences, FiniteSets, TLC

VARIABLES
    pc,          \* position of main() in the pipeline
    artifact,    \* the file data/analysis_results.json
    analysis_results,    \* what load_analysis_results returned
    tabs,        \* the tab names main() has bound
    raised,      \* the exception that ended main(), "" when none did
    df_gas,      \* loaded station/price table
    df_pop,      \* loaded population table
    df_vol,      \* loaded volume table
    df_station,  \* result of prepare_station_data
    df_price,    \* result of prepare_price_data
    df_volume,   \* result of prepare_volume_data
    df_again,    \* result of prepare_station_data applied to df_station
    df_price_again,      \* result of prepare_price_data applied to df_price
    dq_notes,    \* data-quality notes written so far
    eff_bounds,  \* remove_price_outliers: fuel -> effective bounds it used
    scatter,     \* scatter_population_vs_stations: df_merged, or what it raised
    availability,        \* product_availability_stats: its figures, or what it raised
    stations_per_mun,    \* bar_chart_stations_per_municipality: df_merged
    state_avg,   \* display_state_price_triplet: fuel -> df_merged
    state_dev,   \* display_state_price_deviation_triplet: fuel -> df_merged
    mun_avg,     \* display_municipality_price_triplet: fuel -> df_mun
    mun_dev,     \* display_municipality_price_deviation_triplet: fuel -> df_mun
    stations_by_state,   \* bar_chart_stations_by_state: df_merge
    top_municipalities,  \* bar_chart_top_municipalities: stations_by_mun
    volume_charts,       \* volume_analysis_charts: its tables by name
    rankings_again,      \* the three rankings as a second run draws them
    fmt_call,    \* the formatter call made: its name and arguments
    fmt_out,     \* the text the formatter call returned
    hash_seed,   \* the hash randomisation of the running Python process
    sort_ties    \* the order the build's unstable sort leaves equal keys in

vars == <<pc, artifact, analysis_results, tabs, raised, df_gas, df_pop,
          df_vol, df_station, df_price, df_volume, df_again, df_price_again,
          dq_notes, eff_bounds, scatter, availability, stations_per_mun,
          state_avg, state_dev, mun_avg, mun_dev, stations_by_state,
          top_municipalities, volume_charts, rankings_again, fmt_call,
          fmt_out, hash_seed, sort_ties>>

(***************************************************************************)
(* Cell values                                                             *)
(***************************************************************************)
NaN == -1
NonNumeric == -2
NoName == "NaN"

min_price == 12
max_price == 35
lower_permille == 1
upper_permille == 999

Fuels == <<"regular_price", "premium_price", "diesel_price">>

(***************************************************************************)
(* Exact fractions, with the float NaN                                     *)
(***************************************************************************)
Abs(x) == IF x < 0 THEN -x ELSE x

RECURSIVE GCD(_, _)
GCD(a, b) == IF b = 0 THEN a ELSE GCD(b, a % b)

FNaN == [n |-> 0, d |-> 0]
IsNaN(f) == f.d = 0 /\ f.n = 0
\* d = 0 with n = 1 or -1 is the float +inf or -inf
IsInf(f) == f.d = 0 /\ f.n # 0
Sign(x) == IF x < 0 THEN -1 ELSE IF x > 0 THEN 1 ELSE 0

Frac(num, den) ==
    IF den = 0 THEN [n |-> Sign(num), d |-> 0]
    ELSE LET s == IF den < 0 THEN -1 ELSE 1
             g == GCD(Abs(num), Abs(den))
         IN  [n |-> (s * num) \div g, d |-> (s * den) \div g]

FromCell(x) == IF x = NaN THEN FNaN ELSE [n |-> x, d |-> 1]

FAdd(a, b) ==
    IF IsNaN(a) \/ IsNaN(b) THEN FNaN
    ELSE IF IsInf(a) THEN (IF IsInf(b) /\ a.n # b.n THEN FNaN ELSE a)
    ELSE IF IsInf(b) THEN b
    ELSE Frac(a.n * b.d + b.n * a.d, a.d * b.d)
FSub(a, b) ==
    IF IsNaN(a) \/ IsNaN(b) THEN FNaN
    ELSE IF IsInf(a) THEN (IF IsInf(b) /\ a.n = b.n THEN FNaN ELSE a)
    ELSE IF IsInf(b) THEN [n |-> -b.n, d |-> 0]
    ELSE Frac(a.n * b.d - b.n * a.d, a.d * b.d)
\* float division never raises: x / 0 is inf, 0 / 0 and inf / inf are NaN
FDiv(a, b) ==
    IF IsNaN(a) \/ IsNaN(b) \/ (IsInf(a) /\ IsInf(b)) THEN FNaN
    ELSE IF IsInf(b) THEN [n |-> 0, d |-> 1]
    ELSE IF b.n = 0 THEN [n |-> Sign(a.n), d |-> 0]
    ELSE Frac(a.n * b.d * Sign(b.n), a.d * Abs(b.n))
FMul(a, b) ==
    IF IsNaN(a) \/ IsNaN(b) THEN FNaN
    ELSE Frac(a.n * b.n, a.d * b.d)
\* comparisons with NaN are False
FLt(a, b) == ~IsNaN(a) /\ ~IsNaN(b) /\ a.n * b.d < b.n * a.d
FLe(a, b) == ~IsNaN(a) /\ ~IsNaN(b) /\ a.n * b.d <= b.n * a.d

(***************************************************************************)
(* Table helpers                                                           *)
(***************************************************************************)
MkRow(id, st, mu, r, p, d) ==
    [place_id |-> id, state_name |-> st, municipality_name |-> mu,
     regular_price |-> r, premium_price |-> p, diesel_price |-> d]

Cell(row, col) ==
    CASE col = "regular_price" -> row.regular_price
      [] col = "premium_price" -> row.premium_price
      [] col = "diesel_price"  -> row.diesel_price

SetCell(row, col, v) ==
    CASE col = "regular_price" -> [row EXCEPT !.regular_price = v]
      [] col = "premium_price" -> [row EXCEPT !.premium_price = v]
      [] col = "diesel_price"  -> [row EXCEPT !.diesel_price = v]

RECURSIVE Concat(_)
Concat(ss) == IF ss = <<>> THEN <<>> ELSE Head(ss) \o Concat(Tail(ss))

\* the rows of df whose index satisfies keep, in order
RECURSIVE KeepRows(_, _, _)
KeepRows(df, keep, i) ==
    IF i > Len(df) THEN <<>>
    ELSE (IF i \in keep THEN <<df[i]>> ELSE <<>>) \o KeepRows(df, keep, i + 1)

\* Series.unique(): distinct values in order of first appearance
Unique(s) ==
    KeepRows(s, {i \in 1..Len(s) : \A j \in 1..(i - 1) : s[j] # s[i]}, 1)

(***************************************************************************)
(* prepare_station_data                                                    *)
(***************************************************************************)
\* drop_duplicates(subset=["place_id"], keep="last")
DropDuplicatesKeepLast(df) ==
    KeepRows(df, {i \in 1..Len(df) :
                    \A j \in (i + 1)..Len(df) : df[j].place_id # df[i].place_id}, 1)

\* DataFrame.drop_duplicates(subset=["place_id"]): the first row of each
\* place_id is kept; missing ids count as equal to one another
DropDuplicates(df) ==
    KeepRows(df, {i \in 1..Len(df) :
                    \A j \in 1..(i - 1) : df[j].place_id # df[i].place_id}, 1)

AllStates(pop) == Unique([i \in 1..Len(pop) |-> pop[i].Entidad_Federativa])

Placeholder(st) == MkRow(NaN, st, NoName, NaN, NaN, NaN)

\* df_states_only.merge(df_gas, on="state_name", how="left"): the states in
\* roster order, each with its matching rows in df_gas order, or one row of
\* missing values when it has none
MergeLeft(states, df) ==
    Concat([k \in 1..Len(states) |->
        LET match == KeepRows(df, {i \in 1..Len(df) :
                                     df[i].state_name = states[k]}, 1)
        IN  IF match = <<>> THEN <<Placeholder(states[k])>> ELSE match])

\* the join made first and the duplicates dropped from its result
prepare_station_data_join_first(gas, pop) ==
    DropDuplicates(MergeLeft(AllStates(pop), gas))

prepare_station_data(gas, pop) == MergeLeft(AllStates(pop), DropDuplicates(gas))

(***************************************************************************)
(* Sorting: numpy's default sort is an insertion sort below 16 elements,   *)
(* so sort_values keeps tied rows in their previous order, for ascending   *)
(* and (nargsort reverses twice) for descending; NaN keys go last.         *)
(***************************************************************************)
\* the indices of keys in sorted order: index i is inserted into the
\* sorted indices before it, after every index whose key is not beyond its
\* own; an index of an equal key goes after it when ties are "stable" and
\* before it when they are "reversed"
RECURSIVE InsertIndex(_, _, _, _, _)
InsertIndex(i, sorted, keys, asc, ties) ==
    IF sorted = <<>> THEN <<i>>
    ELSE LET beyond == IF asc THEN FLt(keys[i], keys[Head(sorted)])
                       ELSE FLt(keys[Head(sorted)], keys[i])
             equal  == ~FLt(keys[i], keys[Head(sorted)])
                          /\ ~FLt(keys[Head(sorted)], keys[i])
             before == beyond \/ (equal /\ ties = "reversed")
         IN  IF before THEN <<i>> \o sorted
             ELSE <<Head(sorted)>> \o InsertIndex(i, Tail(sorted), keys, asc, ties)

RECURSIVE InsertionSort(_, _, _, _)
InsertionSort(indices, keys, asc, ties) ==
    IF indices = <<>> THEN <<>>
    ELSE InsertIndex(indices[Len(indices)],
                     InsertionSort(SubSeq(indices, 1, Len(indices) - 1),
                                   keys, asc, ties),
                     keys, asc, ties)

\* nargsort: the rows with a key in sorted order, then the rows without
argsort(keys, asc, ties) ==
    LET index == [i \in 1..Len(keys) |-> i]
    IN  InsertionSort(KeepRows(index, {i \in 1..Len(keys) : ~IsNaN(keys[i])}, 1),
                      keys, asc, ties)
        \o KeepRows(index, {i \in 1..Len(keys) : IsNaN(keys[i])}, 1)

\* df.sort_values(by), keys being the column sorted by.  The default sort
\* (kind="quicksort") is not stable: a build may leave equal keys in their
\* previous order or in another one, the same in every run of the build.
sort_values(df, keys, asc) ==
    LET order == argsort(keys, asc, sort_ties)
    IN  [k \in 1..Len(df) |-> df[order[k]]]

(***************************************************************************)
(* remove_price_outliers and prepare_price_data                            *)
(***************************************************************************)
Column(df, col) == [i \in 1..Len(df) |-> Cell(df[i], col)]

\* Series.quantile(q) with q = permille / 1000: linear interpolation between
\* the order statistics of the non-missing values; NaN when there are none
quantile(column, permille) ==
    LET present == KeepRows(column, {i \in 1..Len(column) : column[i] # NaN}, 1)
        v     == sort_values(present, [k \in 1..Len(present) |-> FromCell(present[k])], TRUE)
        pos   == permille * (Len(v) - 1)
        lo    == (pos \div 1000) + 1
        fr    == pos % 1000
    IN  IF v = <<>> THEN FNaN
        ELSE IF fr = 0 THEN FromCell(v[lo])
        ELSE Frac(1000 * v[lo] + fr * (v[lo + 1] - v[lo]), 1000)

\* the larger of the two bounds: the intersection of the two ranges
PyMinNarrow(a, b) == IF FLt(a, b) THEN b ELSE a
\* min(b, a): a NaN percentile gives way to the fixed bound
PyMinSwapped(a, b) == IF FLt(a, b) THEN a ELSE b

\* Python's built-in min(a, b) and max(a, b): the first argument unless the
\* second compares smaller (larger); a NaN first argument is returned as is
PyMin(a, b) ==
    IF FLt(b, a) THEN b ELSE a
PyMax(a, b) ==
    IF FLt(a, b) THEN b ELSE a

effective_lower(df, col) ==
    PyMin(quantile(Column(df, col), lower_permille), FromCell(min_price))
effective_upper(df, col) ==
    PyMax(quantile(Column(df, col), upper_permille), FromCell(max_price))

\* mask with strict comparisons
PriceMaskStrict(x, lower, upper) ==
    FLt(lower, FromCell(x)) /\ FLt(FromCell(x), upper)

\* mask = (df[column] >= effective_lower) & (df[column] <= effective_upper)
PriceMask(x, lower, upper) ==
    FLe(lower, FromCell(x)) /\ FLe(FromCell(x), upper)

\* df[mask]: the rejected rows are dropped instead of blanked
remove_price_outliers_rows(df, col) ==
    LET lower == effective_lower(df, col)
        upper == effective_upper(df, col)
    IN  KeepRows(df, {i \in 1..Len(df) :
                        PriceMask(Cell(df[i], col), lower, upper)}, 1)

remove_price_outliers(df, col) ==
    LET lower == effective_lower(df, col)
        upper == effective_upper(df, col)
    IN  [i \in 1..Len(df) |->
            IF PriceMask(Cell(df[i], col), lower, upper) THEN df[i]
            ELSE SetCell(df[i], col, NaN)]

\* pd.to_numeric(errors="coerce") on one cell
to_numeric(x) == IF x = NonNumeric THEN NaN ELSE x

CoerceColumn(df, col) ==
    [i \in 1..Len(df) |-> SetCell(df[i], col, to_numeric(Cell(df[i], col)))]

CoerceAll(df) ==
    CoerceColumn(CoerceColumn(CoerceColumn(df, Fuels[1]), Fuels[2]), Fuels[3])

prepare_price_data(df) ==
    remove_price_outliers(
        remove_price_outliers(
            remove_price_outliers(CoerceAll(df), Fuels[1]), Fuels[2]), Fuels[3])

(***************************************************************************)
(* Aggregates                                                              *)
(***************************************************************************)
RECURSIVE SumSeq(_)
SumSeq(s) == IF s = <<>> THEN 0 ELSE Head(s) + SumSeq(Tail(s))

\* Series.mean(): the mean of the non-missing cells, NaN when there are none
Mean(column) ==
    LET present == KeepRows(column, {i \in 1..Len(column) : column[i] # NaN}, 1)
    IN  IF present = <<>> THEN FNaN ELSE Frac(SumSeq(present), Len(present))

RowsOfState(df, st) == KeepRows(df, {i \in 1..Len(df) : df[i].state_name = st}, 1)

\* groupby("state_name"): the groups are the non-missing state names of df
StateKeys(df) == {df[i].state_name : i \in 1..Len(df)} \ {NoName}

\* pd.merge(df_all_states, df_state, on="state_name", how="left"), df_state
\* being the function from the group keys to the group values: a state
\* that is no group gets a missing value
MergeStates(pop, df_state) ==
    LET all_states == AllStates(pop)
    IN  [k \in 1..Len(all_states) |->
            [state_name |-> all_states[k],
             value |-> IF all_states[k] \in DOMAIN df_state
                       THEN df_state[all_states[k]] ELSE FNaN]]

fillna0(f) == IF IsNaN(f) THEN [n |-> 0, d |-> 1] ELSE f

\* nunique(dropna=False): a missing value counts as a value
nunique_with_missing(column) == Cardinality({column[i] : i \in 1..Len(column)})

\* Series.nunique(): the number of distinct non-missing values
nunique(column) == Cardinality({column[i] : i \in 1..Len(column)} \ {NaN})

\* bar_chart_stations_by_state: df_merge
bar_chart_stations_by_state(station, pop) ==
    LET stations_per_state ==
            [st \in StateKeys(station) |->
                [n |-> nunique([i \in 1..Len(RowsOfState(station, st)) |->
                                   RowsOfState(station, st)[i].place_id]),
                 d |-> 1]]
        merged == MergeStates(pop, stations_per_state)
        filled == [k \in 1..Len(merged) |->
                      [state_name |-> merged[k].state_name,
                       num_stations |-> fillna0(merged[k].value)]]
    IN  sort_values(filled, [k \in 1..Len(filled) |-> filled[k].num_stations], TRUE)

\* the names of the model in lexicographic order (groupby sorts its keys)
Names ==
    <<"M1", "M2", "M3", "M4", "M5", "M6", "M7", "M8", "M9", "S1", "S2", "SX">>

\* groupby("state_name")[fuel].mean()
state_means(price, fuel) ==
    [st \in StateKeys(price) |-> Mean(Column(RowsOfState(price, st), fuel))]

PriceDeviations(df) == [k \in 1..Len(df) |-> df[k].price_deviation]

\* the mean of the states' means in place of the mean over the stations
national_avg_of_state_means(price, fuel) ==
    LET means == state_means(price, fuel)
        keys  == {st \in DOMAIN means : ~IsNaN(means[st])}
        order == KeepRows(Names, {a \in 1..Len(Names) : Names[a] \in keys}, 1)
        Total[k \in 0..Len(order)] ==
            IF k = 0 THEN [n |-> 0, d |-> 1] ELSE FAdd(Total[k - 1], means[order[k]])
    IN  IF keys = {} THEN FNaN
        ELSE FDiv(Total[Len(order)], [n |-> Cardinality(keys), d |-> 1])

national_avg(price, fuel) == Mean(Column(price, fuel))

\* df_merged of display_state_price_triplet for one fuel
state_price_table(price, pop, fuel) ==
    LET merged == MergeStates(pop, state_means(price, fuel))
        filled == [k \in 1..Len(merged) |->
                      [state_name |-> merged[k].state_name,
                       average_price |-> fillna0(merged[k].value)]]
    IN  sort_values(filled, [k \in 1..Len(filled) |-> filled[k].average_price], TRUE)

Hundred == [n |-> 100, d |-> 1]

\* df_merged of display_state_price_deviation_triplet for one fuel
state_deviation_table(price, pop, fuel) ==
    LET nat == national_avg(price, fuel)
        merged == MergeStates(pop, state_means(price, fuel))
        dev(k) == FSub(fillna0(merged[k].value), nat)
        rows == [k \in 1..Len(merged) |->
                    [state_name |-> merged[k].state_name,
                     average_price |-> fillna0(merged[k].value),
                     price_deviation |-> dev(k),
                     deviation_pct |-> FMul(FDiv(dev(k), nat), Hundred)]]
    IN  sort_values(rows, PriceDeviations(rows), TRUE)

\* the rows of every municipality of the name, whatever their state
RowsOfMunAnyState(df, mu, st) ==
    KeepRows(df, {i \in 1..Len(df) : df[i].municipality_name = mu}, 1)

RowsOfMun(df, mu, st) ==
    KeepRows(df, {i \in 1..Len(df) :
                    df[i].municipality_name = mu /\ df[i].state_name = st}, 1)

FAbs(f) == [n |-> Abs(f.n), d |-> f.d]

\* the last n rows
head_from_the_end(df, n) ==
    SubSeq(df, IF Len(df) < n THEN 1 ELSE Len(df) - n + 1, Len(df))

head(df, n) == SubSeq(df, 1, IF Len(df) < n THEN Len(df) ELSE n)

\* DataFrame.nlargest(n, column): the n rows with the largest values, in
\* descending order, tied rows in their previous order, missing values last
nlargest(df, n, keys) ==
    LET order == argsort(keys, FALSE, "stable")
    IN  head([k \in 1..Len(df) |-> df[order[k]]], n)

top_n == 15

NameRank(name) == CHOOSE a \in 1..Len(Names) : Names[a] = name

\* the pairs of df in the order of their first row
FirstAppearance(df) ==
    Unique([i \in 1..Len(df) |-> <<df[i].municipality_name, df[i].state_name>>])

\* the groups in the iteration order of a hash table keyed by the pairs,
\* which follows the hash seed of the process
GroupKeysHashOrder(df) ==
    LET pairs == KeepRows(FirstAppearance(df),
                     {k \in 1..Len(FirstAppearance(df)) :
                         FirstAppearance(df)[k][1] # NoName}, 1)
    IN  IF hash_seed = 0 THEN pairs
        ELSE [k \in 1..Len(pairs) |-> pairs[Len(pairs) + 1 - k]]

\* groupby(["municipality_name", "state_name"]): the groups are the pairs
\* of the rows without a missing name, sorted by municipality, then state
GroupKeys(df) ==
    LET pairs == KeepRows(FirstAppearance(df),
                     {k \in 1..Len(FirstAppearance(df)) :
                         FirstAppearance(df)[k][1] # NoName}, 1)
    IN  [k \in 1..Len(pairs) |->
            pairs[CHOOSE a \in 1..Len(pairs) :
                    Cardinality({b \in 1..Len(pairs) :
                        \/ NameRank(pairs[b][1]) < NameRank(pairs[a][1])
                        \/ /\ pairs[b][1] = pairs[a][1]
                           /\ NameRank(pairs[b][2]) < NameRank(pairs[a][2])}) = k - 1]]

NumStations(df) == [k \in 1..Len(df) |-> df[k].num_stations]

\* stations_by_mun of bar_chart_top_municipalities
bar_chart_top_municipalities(station) ==
    LET keys == GroupKeys(station)
        rows == [k \in 1..Len(keys) |->
                    [municipality_name |-> keys[k][1], state_name |-> keys[k][2],
                     num_stations |->
                        [n |-> nunique([i \in 1..Len(RowsOfMun(station, keys[k][1], keys[k][2])) |->
                                   RowsOfMun(station, keys[k][1], keys[k][2])[i].place_id]),
                         d |-> 1]]]
        top == head(sort_values(rows, NumStations(rows), FALSE), top_n)
    IN  sort_values(top, NumStations(top), TRUE)

\* the rows both municipality price tables are made of, one per group
municipality_rows(price, fuel) ==
    LET nat == national_avg(price, fuel)
        keys == GroupKeys(price)
        avg(k) == Mean(Column(RowsOfMun(price, keys[k][1], keys[k][2]), fuel))
    IN  [k \in 1..Len(keys) |->
            [municipality_name |-> keys[k][1], state_name |-> keys[k][2],
             average_price |-> avg(k),
             price_deviation |-> FSub(avg(k), nat),
             deviation_pct |-> FMul(FDiv(FSub(avg(k), nat), nat), Hundred),
             abs_deviation |-> FAbs(FSub(avg(k), nat))]]

AveragePrices(df) == [k \in 1..Len(df) |-> df[k].average_price]

\* df_mun of display_municipality_price_triplet for one fuel
municipality_price_table(price, fuel) ==
    LET df_mun == municipality_rows(price, fuel)
        top == head(sort_values(df_mun, AveragePrices(df_mun), FALSE), top_n)
    IN  sort_values(top, AveragePrices(top), TRUE)

\* df_mun of display_municipality_price_deviation_triplet for one fuel
municipality_deviation_table(price, fuel) ==
    LET df_mun == municipality_rows(price, fuel)
        largest == nlargest(df_mun, top_n,
                            [k \in 1..Len(df_mun) |-> df_mun[k].abs_deviation])
    IN  sort_values(largest, PriceDeviations(largest), TRUE)

municipality_price_triplet(price) ==
    [regular_price |-> municipality_price_table(price, "regular_price"),
     premium_price |-> municipality_price_table(price, "premium_price"),
     diesel_price  |-> municipality_price_table(price, "diesel_price")]

\* the three tables of a triplet, one per fuel column
state_price_triplet(price, pop) ==
    [regular_price |-> state_price_table(price, pop, "regular_price"),
     premium_price |-> state_price_table(price, pop, "premium_price"),
     diesel_price  |-> state_price_table(price, pop, "diesel_price")]

state_deviation_triplet(price, pop) ==
    [regular_price |-> state_deviation_table(price, pop, "regular_price"),
     premium_price |-> state_deviation_table(price, pop, "premium_price"),
     diesel_price  |-> state_deviation_table(price, pop, "diesel_price")]

municipality_deviation_triplet(price) ==
    [regular_price |-> municipality_deviation_table(price, "regular_price"),
     premium_price |-> municipality_deviation_table(price, "premium_price"),
     diesel_price  |-> municipality_deviation_table(price, "diesel_price")]

\* the three rankings of a run of main()
rankings(station, price) ==
    [top_municipalities |-> bar_chart_top_municipalities(station),
     mun_avg |-> municipality_price_triplet(price),
     mun_dev |-> municipality_deviation_triplet(price)]

\* the effective bounds remove_price_outliers computes in its call for fuel
bounds_used(df, fuel) ==
    [lower |-> effective_lower(df, fuel), upper |-> effective_upper(df, fuel)]

(***************************************************************************)
(* prepare_volume_data and volume_analysis_charts                          *)
(***************************************************************************)
VolRow(y, st, sp, v) ==
    [Anio |-> y, EntidadFederativa |-> st, SubProducto |-> sp,
     Volumen_Vendido |-> v]

prepare_volume_data(vol) ==
    [i \in 1..Len(vol) |->
        [vol[i] EXCEPT !.Volumen_Vendido = to_numeric(vol[i].Volumen_Vendido)]]

\* df_volume_agg["SubProducto"].replace({...}) on one cell
replace_sub_product(sp) ==
    IF sp \in {"Diésel Automotriz", "DUBA", "Diésel Agricola-Marino"}
    THEN "Diesel" ELSE sp

\* df_volume_agg: the 2024 records with the sub-products mapped
volume_agg(volume) ==
    LET rows == KeepRows(volume, {i \in 1..Len(volume) : volume[i].Anio = 2024}, 1)
    IN  [i \in 1..Len(rows) |->
            [rows[i] EXCEPT !.SubProducto = replace_sub_product(rows[i].SubProducto)]]

\* the sub-product labels in lexicographic order (groupby sorts its keys)
ProductNames ==
    <<"DUBA", "Diesel", "Diésel Agricola-Marino", "Diésel Agrícola-Marino",
      "Diésel Automotriz", "Premium", "Regular">>

\* the members of names, in their order, that occur in keys
SortedKeys(names, keys) ==
    KeepRows(names, {a \in 1..Len(names) : names[a] \in keys}, 1)

\* Series.sum(): the sum of the non-missing cells, 0 when there are none
SumPresent(column) ==
    SumSeq(KeepRows(column, {i \in 1..Len(column) : column[i] # NaN}, 1))

Volumes(df) == [i \in 1..Len(df) |-> df[i].Volumen_Vendido]

\* Series.sum() of floats: NaN is skipped
FSumPresent(column) ==
    LET Total[k \in 0..Len(column)] ==
            IF k = 0 THEN [n |-> 0, d |-> 1]
            ELSE IF IsNaN(column[k]) THEN Total[k - 1]
            ELSE FAdd(Total[k - 1], column[k])
    IN  Total[Len(column)]

\* total_by_fuel: groupby("SubProducto") sum, largest volume first
total_by_fuel(agg) ==
    LET keys == SortedKeys(ProductNames, {agg[i].SubProducto : i \in 1..Len(agg)})
        rows == [k \in 1..Len(keys) |->
                    [SubProducto |-> keys[k],
                     Volumen_Vendido |->
                        SumPresent(Volumes(KeepRows(agg,
                            {i \in 1..Len(agg) : agg[i].SubProducto = keys[k]}, 1)))]]
    IN  sort_values(rows, [k \in 1..Len(rows) |-> FromCell(rows[k].Volumen_Vendido)],
                    FALSE)

\* price_map and Series.map(price_map): a label that is no key maps to NaN
price_map(price, sp) ==
    CASE sp = "Regular" -> national_avg(price, "regular_price")
      [] sp = "Premium" -> national_avg(price, "premium_price")
      [] sp = "Diesel"  -> national_avg(price, "diesel_price")
      [] OTHER -> FNaN

\* volume_2024 without its total: one row per fuel of total_by_fuel
market_rows(agg, price) ==
    LET by_fuel == total_by_fuel(agg)
    IN  [k \in 1..Len(by_fuel) |->
            [SubProducto |-> by_fuel[k].SubProducto,
             Volumen_Vendido |-> by_fuel[k].Volumen_Vendido,
             Avg_Price |-> price_map(price, by_fuel[k].SubProducto),
             Market_Value_2024 |->
                FMul([n |-> by_fuel[k].Volumen_Vendido, d |-> 1],
                     price_map(price, by_fuel[k].SubProducto))]]

MarketValues(df) == [k \in 1..Len(df) |-> df[k].Market_Value_2024]

\* total_market_value = volume_2024["Market_Value_2024"].sum()
total_market_value(agg, price) == FSumPresent(MarketValues(market_rows(agg, price)))

\* volume_2024 with Market_Share
volume_2024(agg, price) ==
    LET rows == market_rows(agg, price)
        total == FSumPresent(MarketValues(rows))
    IN  [k \in 1..Len(rows) |->
            [SubProducto |-> rows[k].SubProducto,
             Volumen_Vendido |-> rows[k].Volumen_Vendido,
             Avg_Price |-> rows[k].Avg_Price,
             Market_Value_2024 |-> rows[k].Market_Value_2024,
             Market_Share |-> FMul(FDiv(rows[k].Market_Value_2024, total), Hundred)]]

\* the plain quotient in place of np.where
avg_volume_per_station_plain(volume, count) ==
    FDiv([n |-> volume, d |-> 1], count)

\* np.where(count_stations > 0, volume / count_stations, 0) on one row
avg_volume_per_station(volume, count) ==
    IF FLt([n |-> 0, d |-> 1], count) THEN FDiv([n |-> volume, d |-> 1], count)
    ELSE [n |-> 0, d |-> 1]

\* groupby("EntidadFederativa") sum of the 2024 records
vol_by_state(agg) ==
    LET keys == SortedKeys(Names, {agg[i].EntidadFederativa : i \in 1..Len(agg)})
    IN  [k \in 1..Len(keys) |->
            [EntidadFederativa |-> keys[k],
             Volumen_Vendido |->
                SumPresent(Volumes(KeepRows(agg,
                    {i \in 1..Len(agg) : agg[i].EntidadFederativa = keys[k]}, 1)))]]

\* stations_per_state: groupby("state_name")["place_id"].nunique()
stations_per_state(station) ==
    [st \in StateKeys(station) |->
        [n |-> nunique([i \in 1..Len(RowsOfState(station, st)) |->
                           RowsOfState(station, st)[i].place_id]),
         d |-> 1]]

\* the rows of the table counted, the placeholder rows with them
total_stations_rows(station) == Len(station)

\* total_stations: df_station["place_id"].nunique()
total_stations(station) ==
    nunique([i \in 1..Len(station) |-> station[i].place_id])

\* merged_state_vol, sorted by avg_volume_per_station
merged_state_vol(agg, station) ==
    LET by_state == vol_by_state(agg)
        counts == stations_per_state(station)
        count(k) == fillna0(IF by_state[k].EntidadFederativa \in DOMAIN counts
                            THEN counts[by_state[k].EntidadFederativa] ELSE FNaN)
        rows == [k \in 1..Len(by_state) |->
                    [EntidadFederativa |-> by_state[k].EntidadFederativa,
                     Volumen_Vendido |-> by_state[k].Volumen_Vendido,
                     count_stations |-> count(k),
                     avg_volume_per_station |->
                        avg_volume_per_station(by_state[k].Volumen_Vendido, count(k))]]
    IN  sort_values(rows, [k \in 1..Len(rows) |-> rows[k].avg_volume_per_station], TRUE)

Digits == <<"0", "1", "2", "3", "4", "5", "6", "7", "8", "9">>

DigitValue(c) == (CHOOSE k \in 1..10 : Digits[k] = c) - 1

\* a text cell is the sequence of its characters; read_csv reads a cell
\* without characters as a missing value
NoText == <<>>

\* Series.replace(",", "", regex=True) on one cell: a text cell loses its
\* commas, a missing cell stays missing
remove_commas(raw) ==
    KeepRows(raw, {i \in 1..Len(raw) : raw[i] # ","}, 1)

\* pd.to_numeric(errors="coerce") on a text cell: the number it spells, or
\* NaN when it is no number
to_numeric_text(text) ==
    LET Value[k \in 0..Len(text)] ==
            IF k = 0 THEN 0 ELSE 10 * Value[k - 1] + DigitValue(text[k])
    IN  IF text = NoText THEN NaN
        ELSE IF \E i \in 1..Len(text) : \A k \in 1..10 : Digits[k] # text[i] THEN NaN
        ELSE Value[Len(text)]

\* df_pop_clean
pop_clean(pop) ==
    [i \in 1..Len(pop) |->
        [Entidad_Federativa |-> pop[i].Entidad_Federativa,
         population |-> to_numeric_text(remove_commas(pop[i].population))]]

\* per_capita_data.merge(df_pop_clean, left_on="state_name",
\* right_on="Entidad Federativa", how="left") and the volume_per_capita
\* column: each row with every population row of its state, or with a
\* missing population when there is none
with_volume_per_capita(data, pop) ==
    LET clean == pop_clean(pop)
        PerCapita(row, population) ==
            [state_name |-> row.state_name,
             SubProducto |-> row.SubProducto,
             Volumen_Vendido |-> row.Volumen_Vendido,
             population |-> population,
             volume_per_capita |->
                FDiv([n |-> row.Volumen_Vendido, d |-> 1], FromCell(population))]
    IN  Concat([k \in 1..Len(data) |->
            LET match == KeepRows(clean, {i \in 1..Len(clean) :
                            clean[i].Entidad_Federativa = data[k].state_name}, 1)
            IN  IF match = <<>> THEN <<PerCapita(data[k], NaN)>>
                ELSE [m \in 1..Len(match) |-> PerCapita(data[k], match[m].population)]])

AllFuels == "all"

\* per_capita_data of the branch without the breakdown by fuel type
per_capita_total(agg, pop) ==
    LET by_state == vol_by_state(agg)
        data == [k \in 1..Len(by_state) |->
                    [state_name |-> by_state[k].EntidadFederativa,
                     SubProducto |-> AllFuels,
                     Volumen_Vendido |-> by_state[k].Volumen_Vendido]]
        merged == with_volume_per_capita(data, pop)
    IN  sort_values(merged, [k \in 1..Len(merged) |-> merged[k].volume_per_capita], TRUE)

\* per_capita_data of the branch with the breakdown by fuel type:
\* groupby(["EntidadFederativa", "SubProducto"]) sum
per_capita_by_fuel(agg, pop) ==
    LET states == SortedKeys(Names, {agg[i].EntidadFederativa : i \in 1..Len(agg)})
        Group(st, sp) ==
            LET rows == KeepRows(agg, {i \in 1..Len(agg) :
                            agg[i].EntidadFederativa = st /\ agg[i].SubProducto = sp}, 1)
            IN  IF rows = <<>> THEN <<>>
                ELSE <<[state_name |-> st, SubProducto |-> sp,
                        Volumen_Vendido |-> SumPresent(Volumes(rows))]>>
        data == Concat([a \in 1..Len(states) |->
                    Concat([b \in 1..Len(ProductNames) |->
                        Group(states[a], ProductNames[b])])])
    IN  with_volume_per_capita(data, pop)

\* the tables volume_analysis_charts computes, by their names in the code
volume_analysis_charts(volume, price, station, pop, show_by_fuel) ==
    LET agg == volume_agg(volume)
    IN  [df_volume_agg |-> agg,
         total_by_fuel |-> total_by_fuel(agg),
         volume_2024 |-> volume_2024(agg, price),
         total_market_value |-> total_market_value(agg, price),
         total_stations |-> total_stations(station),
         avg_vol_per_station |->
            IF total_stations(station) # 0
            THEN Frac(SumPresent(Volumes(agg)), total_stations(station))
            ELSE FNaN,
         merged_state_vol |-> merged_state_vol(agg, station),
         per_capita_data |-> IF show_by_fuel THEN per_capita_by_fuel(agg, pop)
                             ELSE per_capita_total(agg, pop)]

(***************************************************************************)
(* format_volume and format_currency.  An amount is a whole number of      *)
(* units of 10^4 (pesos or liters), so that x / 1e6 has two decimals; a    *)
(* text is the sequence of its characters.                                 *)
(***************************************************************************)
\* the amounts 1e9 and 1e12 in units, and the pesos to the dollar
Billion == 100000
Trillion == 100000000
usd_rate == 20

\* a / b rounded to the nearest whole number, a half to the even one
Round(a, b) ==
    LET q == a \div b
        r == a % b
    IN  IF 2 * r > b \/ (2 * r = b /\ q % 2 = 1) THEN q + 1 ELSE q

RECURSIVE DigitsOf(_)
DigitsOf(k) ==
    IF k < 10 THEN <<Digits[k + 1]>>
    ELSE DigitsOf(k \div 10) \o <<Digits[(k % 10) + 1]>>

\* f"{v:.2f}" of the value cents / 100
Fixed2(cents) ==
    DigitsOf(cents \div 100)
        \o <<".", Digits[((cents % 100) \div 10) + 1], Digits[(cents % 10) + 1]>>

\* str.rstrip(c) for one character c
RECURSIVE rstrip(_, _)
rstrip(text, c) ==
    IF text # <<>> /\ text[Len(text)] = c
    THEN rstrip(SubSeq(text, 1, Len(text) - 1), c)
    ELSE text

\* f"{before}{x/scale:.2f}{after}".rstrip('0').rstrip('.')
Formatted(before, cents, after) ==
    rstrip(rstrip(before \o Fixed2(cents) \o after, "0"), ".")

Liters == <<" ", "l", "i", "t", "e", "r", "s">>

format_volume(x, include_label) ==
    LET val == IF x >= Billion
               THEN Formatted(<<>>, Round(x, Billion \div 100), <<"B">>)
               ELSE Formatted(<<>>, x, <<"M">>)
    IN  IF include_label THEN val \o Liters ELSE val

USD == <<"(", "U", "S", "D", " ">>
MXN == <<" ", "M", "X", "N">>

\* usd_value = x / 20 enters only as usd_value / scale, which is
\* x / (20 * scale)
format_currency(x, include_currency, include_usd) ==
    LET Join(mxn, usd) ==
            IF include_usd
            THEN (IF include_currency THEN mxn \o MXN \o <<" ">> \o usd
                  ELSE mxn \o <<" ">> \o usd)
            ELSE (IF include_currency THEN mxn \o MXN ELSE mxn)
    IN  IF x >= Trillion
        THEN Join(Formatted(<<"$">>, Round(x, Trillion \div 100), <<"T">>),
                  IF x \div usd_rate < Trillion
                  THEN Formatted(USD, Round(x, usd_rate * (Billion \div 100)),
                                 <<"B", ")">>)
                  ELSE Formatted(USD, Round(x, usd_rate * (Trillion \div 100)),
                                 <<"T", ")">>))
        ELSE IF x >= Billion
        THEN Join(Formatted(<<"$">>, Round(x, Billion \div 100), <<"B">>),
                  Formatted(USD, Round(x, usd_rate * (Billion \div 100)), <<"B", ")">>))
        ELSE Join(Formatted(<<"$">>, x, <<"M">>),
                  Formatted(USD, Round(x, usd_rate), <<"M", ")">>))

(***************************************************************************)
(* The station charts that can raise, and the stations per municipality.   *)
(* The outcome of a call is what it returned or the exception it raised.   *)
(***************************************************************************)
Returned(value) == [raised |-> "", value |-> value]
Raised(exception) == [raised |-> exception, value |-> <<>>]

\* df_merged of scatter_population_vs_stations: the states of the station
\* table in sorted order, each with the population rows of its name, the
\* population made a number and formatted: f"{value/1e6:.1f}M" from a
\* million on, f"{int(value/1000)}K" below; int(value / 1000) of a missing
\* population raises ValueError
scatter_population_vs_stations(station, pop) ==
    LET format_population(value) ==
            IF value >= 1000000
            THEN DigitsOf(Round(value, 100000) \div 10)
                    \o <<".", Digits[(Round(value, 100000) % 10) + 1], "M">>
            ELSE DigitsOf(value \div 1000) \o <<"K">>
        counts == stations_per_state(station)
        states == SortedKeys(Names, DOMAIN counts)
        Merged(st, population) ==
            [state_name |-> st, num_stations |-> counts[st],
             population |-> to_numeric_text(remove_commas(population))]
        df_merged ==
            Concat([k \in 1..Len(states) |->
                LET match == KeepRows(pop, {i \in 1..Len(pop) :
                                pop[i].Entidad_Federativa = states[k]}, 1)
                IN  IF match = <<>> THEN <<Merged(states[k], NoText)>>
                    ELSE [m \in 1..Len(match) |->
                             Merged(states[k], match[m].population)]])
    IN  IF \E k \in 1..Len(df_merged) : df_merged[k].population = NaN
        THEN Raised("ValueError")
        ELSE Returned([k \in 1..Len(df_merged) |->
                [state_name |-> df_merged[k].state_name,
                 num_stations |-> df_merged[k].num_stations,
                 population |-> df_merged[k].population,
                 formatted_population |->
                    format_population(df_merged[k].population)]])

\* product_availability_stats: the counts and percentages it writes; the
\* count of a fuel is df_station.dropna(subset=[fuel])["place_id"].nunique(),
\* where a raw price that is no number is not missing; the counts are
\* Python integers, whose division by 0 raises
product_availability_stats(station) ==
    LET total == total_stations(station)
        with_value(fuel) ==
            KeepRows(station,
                {j \in 1..Len(station) : Cell(station[j], fuel) # NaN}, 1)
        stations_selling(fuel) ==
            nunique([i \in 1..Len(with_value(fuel)) |->
                        with_value(fuel)[i].place_id])
        Pct(count) == FMul(Frac(count, total), Hundred)
    IN  IF total = 0 THEN Raised("ZeroDivisionError")
        ELSE Returned(
                [total_stations |-> total,
                 regular_price |-> stations_selling("regular_price"),
                 premium_price |-> stations_selling("premium_price"),
                 diesel_price  |-> stations_selling("diesel_price"),
                 reg_pct    |-> Pct(stations_selling("regular_price")),
                 prem_pct   |-> Pct(stations_selling("premium_price")),
                 diesel_pct |-> Pct(stations_selling("diesel_price"))])

\* df_merged of bar_chart_stations_per_municipality: the states of the
\* station table with their distinct stations and distinct municipality
\* names and the quotient of the two, a float division
bar_chart_stations_per_municipality(station) ==
    LET counts == stations_per_state(station)
        states == SortedKeys(Names, DOMAIN counts)
        Municipalities(st) ==
            Cardinality({RowsOfState(station, st)[i].municipality_name :
                            i \in 1..Len(RowsOfState(station, st))} \ {NoName})
        rows == [k \in 1..Len(states) |->
                    [state_name |-> states[k],
                     total_stations |-> counts[states[k]],
                     total_municipalities |-> Municipalities(states[k]),
                     avg_stations_per_municipality |->
                        FDiv(counts[states[k]],
                             [n |-> Municipalities(states[k]), d |-> 1])]]
    IN  sort_values(rows,
            [k \in 1..Len(rows) |-> rows[k].avg_stations_per_municipality],
            TRUE)

(***************************************************************************)
(* main and load_analysis_results.  The results file is there or not and,  *)
(* when there, holds a record with the names of some analyses as keys.     *)
(***************************************************************************)
None == [none |-> TRUE, keys |-> {}]
Record(keys) == [none |-> FALSE, keys |-> keys]

\* an empty record returned for a file that is not there
load_analysis_results_empty_record(file) == Record(file.keys)

\* load_analysis_results: json.load of the file, None on FileNotFoundError
load_analysis_results(file) ==
    IF file.exists THEN Record(file.keys) ELSE None

\* "if analysis_results:": None and the empty record are false
Truthy(results) == ~results.none /\ results.keys # {}

\* the names st.tabs binds in the branch of the CSV files
TabNames == {"tab_stations", "tab_prices", "tab_volumes", "tab_interpretation"}

(***************************************************************************)
(* Inputs: the tables load_data returns                                    *)
(***************************************************************************)
MaxStations == 2

PopulationRow(st, raw) == [Entidad_Federativa |-> st, population |-> raw]

PopRow(st) == PopulationRow(st, <<"2", "5">>)

\* the second table names a state twice: the roster is its distinct names
PopTables ==
    { <<PopRow("S1"), PopRow("S2")>>,
      <<PopRow("S2"), PopRow("S1"), PopRow("S2")>> }

TablesOver(rows) == UNION {[1..n -> rows] : n \in 0..MaxStations}

\* each row gets its own place_id
NumberRows(df) == [i \in 1..Len(df) |-> [df[i] EXCEPT !.place_id = i]]

\* station rows with repeated and missing ids, in and out of the roster
ReconcileRows ==
    {MkRow(id, st, pay[1], pay[2], pay[3], pay[4]) :
        id \in {NaN, 1, 2}, st \in {"S1", "S2", "SX"},
        pay \in {<<"M1", 20, NaN, NaN>>, <<"M2", 24, 22, 21>>}}

\* station rows with valid prices in several states and municipalities
AggregateRows ==
    {MkRow(NaN, st, mu, pr[1], pr[2], pr[3]) :
        st \in {"S1", "S2", "SX"}, mu \in {"M1", "M2"},
        pr \in {<<NaN, NaN, NaN>>, <<20, 22, NaN>>, <<24, NaN, 21>>}}

\* station rows with raw prices on both sides of the realistic range
PriceRows ==
    {MkRow(NaN, "S1", "M1", r, pd[1], pd[2]) :
        r \in {NaN, NonNumeric, 5, 12, 35, 40},
        pd \in {<<NaN, 20>>, <<20, NaN>>, <<40, 5>>}}

\* two stations in one state and one in another: the mean of the state
\* means differs from the mean over the stations
MeansExample ==
    NumberRows(<<MkRow(NaN, "S1", "M1", 20, 22, 21),
                 MkRow(NaN, "S1", "M2", 20, 22, 21),
                 MkRow(NaN, "S2", "M1", 24, 23, 24)>>)

\* a state with a station that does not sell regular beside one that does
WeightsExample ==
    NumberRows(<<MkRow(NaN, "S1", "M1", 20, 22, 21),
                 MkRow(NaN, "S1", "M2", NaN, 24, NaN),
                 MkRow(NaN, "S2", "M1", 24, NaN, 24)>>)

\* the price column of the outlier example
ExampleTable ==
    NumberRows(<<MkRow(NaN, "S1", "M1", 5, NaN, NaN),
                 MkRow(NaN, "S1", "M1", 20, NaN, NaN),
                 MkRow(NaN, "S1", "M1", 21, NaN, NaN),
                 MkRow(NaN, "S1", "M1", 22, NaN, NaN),
                 MkRow(NaN, "S1", "M1", 40, NaN, NaN)>>)

\* station rows of municipalities that tie on the price and on the count
RankRows ==
    {MkRow(NaN, st, mu, r, NaN, NaN) :
        st \in {"S1", "S2"}, mu \in {"M1", "M2"}, r \in {20, 24}}

\* seventeen municipalities of one station each, two more than a ranking
\* keeps: fifteen of them tie on the regular price and all tie on the count,
\* two sell no premium and none sells diesel
TiesExample ==
    NumberRows(
        [i \in 1..17 |->
            MkRow(NaN, IF i <= 9 THEN "S1" ELSE "S2",
                  Names[IF i <= 9 THEN i ELSE i - 9],
                  IF i = 4 THEN 24 ELSE IF i = 12 THEN 22 ELSE 20,
                  IF i <= 2 THEN NaN ELSE 22, NaN)])

\* prices below the realistic range: the lowest is under the percentile
\* bound of the three, the next one under that of the two that are left
CascadeExample ==
    NumberRows(<<MkRow(NaN, "S1", "M1", 10, NaN, NaN),
                 MkRow(NaN, "S1", "M1", 11, NaN, NaN),
                 MkRow(NaN, "S1", "M1", 20, NaN, NaN)>>)

MaxRecords == 2

VolumeTablesOver(rows) == UNION {[1..n -> rows] : n \in 0..MaxRecords}

\* the volume table of the runs that vary the station table
VolumeExample ==
    <<VolRow(2024, "S1", "Regular", 6),
      VolRow(2024, "S2", "Diésel Automotriz", NonNumeric),
      VolRow(2023, "S1", "Premium", 4)>>

\* volume records of states in and out of the roster and the station table
RatioRows ==
    {VolRow(2024, st, "Regular", v) : st \in {"S1", "S2", "SX"}, v \in {NonNumeric, 3, 6}}
        \cup {VolRow(2023, "S1", "Regular", 6)}

\* volume records of one state with the raw sub-product labels
FuelRows ==
    {VolRow(2024, "S1", sp, v) :
        sp \in {"Regular", "Premium", "Diésel Automotriz", "DUBA",
                "Diésel Agricola-Marino", "Diésel Agrícola-Marino"},
        v \in {4, 6}}
        \cup {VolRow(2023, "S1", "Premium", 6)}

\* populations written as 0, with a thousands separator, as text that is
\* no number, and left empty
PopulationTables ==
    {<<PopulationRow("S1", raw), PopulationRow("S2", <<"2">>)>> :
        raw \in {<<"0">>, <<"1", ",", "0", "0", "0">>, <<"n", "d">>, NoText}}

\* two stations in S1 and none in S2
RatioStations == SubSeq(MeansExample, 1, 2)

\* one station that sells no diesel
NoDieselExample == NumberRows(<<MkRow(NaN, "S1", "M1", 20, 22, NaN)>>)

Unset == <<>>

\* nothing is computed yet
Started ==
    /\ df_station = Unset
    /\ df_price = Unset
    /\ df_again = Unset
    /\ dq_notes = <<>>
    /\ eff_bounds = Unset
    /\ state_avg = Unset
    /\ state_dev = Unset
    /\ mun_dev = Unset
    /\ stations_by_state = Unset
    /\ df_volume = Unset
    /\ volume_charts = Unset
    /\ fmt_call = Unset
    /\ fmt_out = Unset
    /\ top_municipalities = Unset
    /\ mun_avg = Unset
    /\ rankings_again = Unset
    /\ scatter = Unset
    /\ availability = Unset
    /\ stations_per_mun = Unset
    /\ df_price_again = Unset

\* main() has found no results file and has taken the branch of the CSV
\* files; the tabs are not made yet
NoArtifact ==
    /\ artifact = [exists |-> FALSE, keys |-> {}]
    /\ analysis_results = None
    /\ tabs = {}
    /\ raised = ""

HashSeeds == {0, 1}

SortTies == {"stable", "reversed"}

Init ==
    /\ hash_seed = 0
    /\ sort_ties = "stable"
    /\ \/ df_gas \in TablesOver(ReconcileRows) /\ df_pop \in PopTables
       \/ df_gas \in {NumberRows(t) : t \in TablesOver(AggregateRows)}
                        \cup {MeansExample, WeightsExample}
          /\ df_pop = <<PopRow("S1"), PopRow("S2")>>
       \/ df_gas \in {NumberRows(t) : t \in TablesOver(PriceRows)} \cup {ExampleTable}
          /\ df_pop = <<PopRow("S1"), PopRow("S2")>>
    /\ df_vol = VolumeExample
    /\ pc = "loaded"
    /\ NoArtifact
    /\ Started

\* the runs that vary the volume and population tables
InitVolume ==
    /\ hash_seed = 0
    /\ sort_ties = "stable"
    /\ \/ /\ df_vol \in VolumeTablesOver(RatioRows)
          /\ df_gas = RatioStations
          /\ df_pop \in PopulationTables
       \/ /\ df_vol \in VolumeTablesOver(FuelRows)
          /\ df_gas \in {MeansExample, NoDieselExample}
          /\ df_pop = <<PopRow("S1"), PopRow("S2")>>
    /\ pc = "loaded"
    /\ NoArtifact
    /\ Started

\* the runs that vary the ties of the rankings, the build and the hash seed
InitRanking ==
    /\ hash_seed \in HashSeeds
    /\ sort_ties \in SortTies
    /\ df_gas \in {NumberRows(t) : t \in TablesOver(RankRows)} \cup {TiesExample}
    /\ df_pop = <<PopRow("S1"), PopRow("S2")>>
    /\ df_vol = VolumeExample
    /\ pc = "loaded"
    /\ NoArtifact
    /\ Started

\* the runs that vary what the station charts and the cleaner are given:
\* stations whose raw regular price is missing, no number, in range, or
\* beyond the range and the percentiles of a table of two, and a
\* population of more than a million
InitAggregates ==
    /\ hash_seed = 0
    /\ sort_ties = "stable"
    /\ df_gas \in {NumberRows(t) : t \in TablesOver(
                        {MkRow(NaN, st, "M1", r, 22, NaN) :
                            st \in {"S1", "S2"},
                            r \in {NaN, NonNumeric, 20, 40}})}
                    \cup {CascadeExample, ExampleTable, MeansExample}
    /\ df_pop \in PopulationTables \cup
          {<<PopulationRow("S1", <<"1", ",", "2", "5", "0", ",", "0", "0", "0">>),
             PopulationRow("S2", <<"2", "5", "0", "0">>)>>}
    /\ df_vol = VolumeExample
    /\ pc = "loaded"
    /\ NoArtifact
    /\ Started

\* main() from its start
InitMain ==
    /\ hash_seed = 0
    /\ sort_ties = "stable"
    /\ artifact \in {[exists |-> FALSE, keys |-> {}],
                     [exists |-> TRUE, keys |-> {}],
                     [exists |-> TRUE, keys |-> {"stations_by_state"}]}
    /\ analysis_results = Unset
    /\ tabs = {}
    /\ raised = ""
    /\ df_gas = Unset
    /\ df_pop = Unset
    /\ df_vol = Unset
    /\ pc = "main"
    /\ Started

\* the amounts given to the formatters, in units: below and at the tiers of
\* 1e9 and 1e12 pesos or liters and of 1e9 and 1e12 dollars, off the halves
\* of the last decimal, whose rounding depends on the float nearest to them
Amounts ==
    {0, 1, 99, 200, 12345, 99999, Billion, 150000, 234567, 1999999, 2000000,
     50000000, 99999999, Trillion, 150000000, 1234567890, 1999999999,
     2000000000}

\* the formatters called on their own, no table loaded
InitFormat ==
    /\ pc = "format"
    /\ NoArtifact
    /\ hash_seed = 0
    /\ sort_ties = "stable"
    /\ df_gas = Unset
    /\ df_pop = Unset
    /\ df_vol = Unset
    /\ Started

(***************************************************************************)
(* main(): the pipeline run from the CSV files                             *)
(***************************************************************************)
\* prepare_station_data writes no message: dq_notes stays as it is
PrepareStationData ==
    /\ pc = "loaded"
    /\ df_station' = prepare_station_data(df_gas, df_pop)
    /\ pc' = "reconciled"
    /\ UNCHANGED <<df_gas, df_pop, df_price, df_again, dq_notes, eff_bounds,
                   state_avg, state_dev, mun_dev, stations_by_state, df_vol,
                   df_volume, volume_charts, fmt_call, fmt_out,
                   top_municipalities, mun_avg, rankings_again, hash_seed,
                   sort_ties, scatter, availability, stations_per_mun,
                   df_price_again, artifact, analysis_results, tabs, raised>>

\* the reconciler applied to its own output
ReconcileAgain ==
    /\ pc = "reconciled"
    /\ df_again' = prepare_station_data(df_station, df_pop)
    /\ pc' = "reconciled_again"
    /\ UNCHANGED <<df_gas, df_pop, df_station, df_price, dq_notes, eff_bounds,
                   state_avg, state_dev, mun_dev, stations_by_state, df_vol,
                   df_volume, volume_charts, fmt_call, fmt_out,
                   top_municipalities, mun_avg, rankings_again, hash_seed,
                   sort_ties, scatter, availability, stations_per_mun,
                   df_price_again, artifact, analysis_results, tabs, raised>>

PreparePriceData ==
    /\ pc = "reconciled"
    /\ df_price' = prepare_price_data(df_station)
    /\ eff_bounds' = [regular_price |-> bounds_used(CoerceAll(df_station), "regular_price"),
                      premium_price |-> bounds_used(CoerceAll(df_station), "premium_price"),
                      diesel_price  |-> bounds_used(CoerceAll(df_station), "diesel_price")]
    /\ pc' = "cleaned"
    /\ UNCHANGED <<df_gas, df_pop, df_station, df_again, dq_notes, state_avg,
                   state_dev, mun_dev, stations_by_state, df_vol, df_volume,
                   volume_charts, fmt_call, fmt_out, top_municipalities,
                   mun_avg, rankings_again, hash_seed, sort_ties, scatter,
                   availability, stations_per_mun, df_price_again, artifact,
                   analysis_results, tabs, raised>>

\* prepare_volume_data assigns the coerced column to the table it was given
\* and returns that table; main() makes the four tabs right after the call
PrepareVolumeData ==
    /\ pc = "cleaned"
    /\ df_vol' = prepare_volume_data(df_vol)
    /\ df_volume' = prepare_volume_data(df_vol)
    /\ tabs' = TabNames
    /\ pc' = "volume_prepared"
    /\ UNCHANGED <<artifact, analysis_results, raised, df_gas, df_pop,
                   df_station, df_price, df_again, df_price_again, dq_notes,
                   eff_bounds, scatter, availability, stations_per_mun,
                   state_avg, state_dev, mun_avg, mun_dev, stations_by_state,
                   top_municipalities, volume_charts, rankings_again,
                   fmt_call, fmt_out, hash_seed, sort_ties>>

BarChartStationsByState ==
    /\ pc = "volume_prepared"
    /\ stations_by_state' = bar_chart_stations_by_state(df_station, df_pop)
    /\ pc' = "stations_by_state"
    /\ UNCHANGED <<df_gas, df_pop, df_station, df_price, df_again, dq_notes,
                   eff_bounds, state_avg, state_dev, mun_dev, df_vol,
                   df_volume, volume_charts, fmt_call, fmt_out,
                   top_municipalities, mun_avg, rankings_again, hash_seed,
                   sort_ties, scatter, availability, stations_per_mun,
                   df_price_again, artifact, analysis_results, tabs, raised>>

BarChartTopMunicipalities ==
    /\ pc = "stations_by_state"
    /\ top_municipalities' = bar_chart_top_municipalities(df_station)
    /\ pc' = "top_municipalities"
    /\ UNCHANGED <<df_gas, df_pop, df_station, df_price, df_again, dq_notes,
                   eff_bounds, state_avg, state_dev, mun_dev,
                   stations_by_state, df_vol, df_volume, volume_charts,
                   fmt_call, fmt_out, mun_avg, rankings_again, hash_seed,
                   sort_ties, scatter, availability, stations_per_mun,
                   df_price_again, artifact, analysis_results, tabs, raised>>

DisplayStatePriceTriplet ==
    /\ pc = "top_municipalities"
    /\ state_avg' = state_price_triplet(df_price, df_pop)
    /\ pc' = "state_price"
    /\ UNCHANGED <<df_gas, df_pop, df_station, df_price, df_again, dq_notes,
                   eff_bounds, state_dev, mun_dev, stations_by_state, df_vol,
                   df_volume, volume_charts, fmt_call, fmt_out,
                   top_municipalities, mun_avg, rankings_again, hash_seed,
                   sort_ties, scatter, availability, stations_per_mun,
                   df_price_again, artifact, analysis_results, tabs, raised>>

DisplayStatePriceDeviationTriplet ==
    /\ pc = "state_price"
    /\ state_dev' = state_deviation_triplet(df_price, df_pop)
    /\ pc' = "state_deviation"
    /\ UNCHANGED <<df_gas, df_pop, df_station, df_price, df_again, dq_notes,
                   eff_bounds, state_avg, mun_dev, stations_by_state, df_vol,
                   df_volume, volume_charts, fmt_call, fmt_out,
                   top_municipalities, mun_avg, rankings_again, hash_seed,
                   sort_ties, scatter, availability, stations_per_mun,
                   df_price_again, artifact, analysis_results, tabs, raised>>

DisplayMunicipalityPriceTriplet ==
    /\ pc = "state_deviation"
    /\ mun_avg' = municipality_price_triplet(df_price)
    /\ pc' = "municipality_price"
    /\ UNCHANGED <<df_gas, df_pop, df_station, df_price, df_again, dq_notes,
                   eff_bounds, state_avg, state_dev, mun_dev,
                   stations_by_state, df_vol, df_volume, volume_charts,
                   fmt_call, fmt_out, top_municipalities, rankings_again,
                   hash_seed, sort_ties, scatter, availability,
                   stations_per_mun, df_price_again, artifact,
                   analysis_results, tabs, raised>>

DisplayMunicipalityPriceDeviationTriplet ==
    /\ pc = "municipality_price"
    /\ mun_dev' = municipality_deviation_triplet(df_price)
    /\ pc' = "municipality_deviation"
    /\ UNCHANGED <<df_gas, df_pop, df_station, df_price, df_again, dq_notes,
                   eff_bounds, state_avg, state_dev, stations_by_state,
                   df_vol, df_volume, volume_charts, fmt_call, fmt_out,
                   top_municipalities, mun_avg, rankings_again, hash_seed,
                   sort_ties, scatter, availability, stations_per_mun,
                   df_price_again, artifact, analysis_results, tabs, raised>>

\* the checkbox "Show breakdown by fuel type" is an input of the run
VolumeAnalysisCharts ==
    /\ pc = "municipality_deviation"
    /\ \E show_by_fuel \in BOOLEAN :
          volume_charts' = volume_analysis_charts(df_volume, df_price, df_station,
                                                  df_pop, show_by_fuel)
    /\ pc' = "volume_analysis"
    /\ UNCHANGED <<df_gas, df_pop, df_station, df_price, df_again, dq_notes,
                   eff_bounds, state_avg, state_dev, mun_dev,
                   stations_by_state, df_vol, df_volume, fmt_call, fmt_out,
                   top_municipalities, mun_avg, rankings_again, hash_seed,
                   sort_ties, scatter, availability, stations_per_mun,
                   df_price_again, artifact, analysis_results, tabs, raised>>

\* the script is run again over the same tables, on the same build, in a
\* process with a hash seed of its own
Rerun ==
    /\ pc = "volume_analysis"
    /\ hash_seed' \in HashSeeds
    /\ pc' = "rerun"
    /\ UNCHANGED <<df_gas, df_pop, df_vol, df_station, df_price, df_volume,
                   df_again, dq_notes, eff_bounds, state_avg, state_dev,
                   mun_avg, mun_dev, stations_by_state, top_municipalities,
                   volume_charts, rankings_again, fmt_call, fmt_out,
                   sort_ties, scatter, availability, stations_per_mun,
                   df_price_again, artifact, analysis_results, tabs, raised>>

\* the three rankings the second run draws
RankAgain ==
    /\ pc = "rerun"
    /\ rankings_again' = rankings(df_station, df_price)
    /\ pc' = "ranked_again"
    /\ UNCHANGED <<df_gas, df_pop, df_vol, df_station, df_price, df_volume,
                   df_again, dq_notes, eff_bounds, state_avg, state_dev,
                   mun_avg, mun_dev, stations_by_state, top_municipalities,
                   volume_charts, fmt_call, fmt_out, hash_seed, sort_ties,
                   scatter, availability, stations_per_mun, df_price_again,
                   artifact, analysis_results, tabs, raised>>

\* prepare_price_data applied to the table it returned
CleanAgain ==
    /\ pc = "cleaned"
    /\ df_price_again' = prepare_price_data(df_price)
    /\ pc' = "cleaned_again"
    /\ UNCHANGED <<artifact, analysis_results, tabs, raised, df_gas, df_pop,
                   df_vol, df_station, df_price, df_volume, df_again,
                   dq_notes, eff_bounds, scatter, availability,
                   stations_per_mun, state_avg, state_dev, mun_avg, mun_dev,
                   stations_by_state, top_municipalities, volume_charts,
                   rankings_again, fmt_call, fmt_out, hash_seed, sort_ties>>

\* an exception of a chart ends main()
ScatterPopulationVsStations ==
    /\ pc = "volume_prepared"
    /\ scatter' = scatter_population_vs_stations(df_station, df_pop)
    /\ raised' = scatter'.raised
    /\ pc' = IF raised' # "" THEN "raised" ELSE "scatter"
    /\ UNCHANGED <<artifact, analysis_results, tabs, df_gas, df_pop, df_vol,
                   df_station, df_price, df_volume, df_again, df_price_again,
                   dq_notes, eff_bounds, availability, stations_per_mun,
                   state_avg, state_dev, mun_avg, mun_dev, stations_by_state,
                   top_municipalities, volume_charts, rankings_again,
                   fmt_call, fmt_out, hash_seed, sort_ties>>

ProductAvailabilityStats ==
    /\ pc = "stations_by_state"
    /\ availability' = product_availability_stats(df_station)
    /\ raised' = availability'.raised
    /\ pc' = IF raised' # "" THEN "raised" ELSE "product_availability"
    /\ UNCHANGED <<artifact, analysis_results, tabs, df_gas, df_pop, df_vol,
                   df_station, df_price, df_volume, df_again, df_price_again,
                   dq_notes, eff_bounds, scatter, stations_per_mun, state_avg,
                   state_dev, mun_avg, mun_dev, stations_by_state,
                   top_municipalities, volume_charts, rankings_again,
                   fmt_call, fmt_out, hash_seed, sort_ties>>

BarChartStationsPerMunicipality ==
    /\ pc = "top_municipalities"
    /\ stations_per_mun' = bar_chart_stations_per_municipality(df_station)
    /\ pc' = "stations_per_municipality"
    /\ UNCHANGED <<artifact, analysis_results, tabs, raised, df_gas, df_pop,
                   df_vol, df_station, df_price, df_volume, df_again,
                   df_price_again, dq_notes, eff_bounds, scatter,
                   availability, state_avg, state_dev, mun_avg, mun_dev,
                   stations_by_state, top_municipalities, volume_charts,
                   rankings_again, fmt_call, fmt_out, hash_seed, sort_ties>>

LoadAnalysisResults ==
    /\ pc = "main"
    /\ analysis_results' = load_analysis_results(artifact)
    /\ pc' = "branch"
    /\ UNCHANGED <<artifact, tabs, raised, df_gas, df_pop, df_vol, df_station,
                   df_price, df_volume, df_again, df_price_again, dq_notes,
                   eff_bounds, scatter, availability, stations_per_mun,
                   state_avg, state_dev, mun_avg, mun_dev, stations_by_state,
                   top_municipalities, volume_charts, rankings_again,
                   fmt_call, fmt_out, hash_seed, sort_ties>>

\* the branch of the results file: a notice, and nothing computed
UsePrecomputed ==
    /\ pc = "branch"
    /\ Truthy(analysis_results)
    /\ pc' = "precomputed"
    /\ UNCHANGED <<artifact, analysis_results, tabs, raised, df_gas, df_pop,
                   df_vol, df_station, df_price, df_volume, df_again,
                   df_price_again, dq_notes, eff_bounds, scatter,
                   availability, stations_per_mun, state_avg, state_dev,
                   mun_avg, mun_dev, stations_by_state, top_municipalities,
                   volume_charts, rankings_again, fmt_call, fmt_out,
                   hash_seed, sort_ties>>

\* the branch of the CSV files starts with load_data
LoadData ==
    /\ pc = "branch"
    /\ ~Truthy(analysis_results)
    /\ \E gas \in {NumberRows(t) : t \in TablesOver(RankRows)} :
          df_gas' = gas
    /\ df_pop' = <<PopRow("S1"), PopRow("S2")>>
    /\ df_vol' = VolumeExample
    /\ pc' = "loaded"
    /\ UNCHANGED <<artifact, analysis_results, tabs, raised, df_station,
                   df_price, df_volume, df_again, df_price_again, dq_notes,
                   eff_bounds, scatter, availability, stations_per_mun,
                   state_avg, state_dev, mun_avg, mun_dev, stations_by_state,
                   top_municipalities, volume_charts, rankings_again,
                   fmt_call, fmt_out, hash_seed, sort_ties>>

\* "with tab_interpretation:", after either branch: the name is a local
\* of main(), bound by st.tabs only
Interpretation ==
    /\ pc \in {"precomputed", "volume_analysis"}
    /\ raised' = IF "tab_interpretation" \in tabs THEN "" ELSE "UnboundLocalError"
    /\ pc' = IF "tab_interpretation" \in tabs THEN "interpretation" ELSE "raised"
    /\ UNCHANGED <<artifact, analysis_results, tabs, df_gas, df_pop, df_vol,
                   df_station, df_price, df_volume, df_again, df_price_again,
                   dq_notes, eff_bounds, scatter, availability,
                   stations_per_mun, state_avg, state_dev, mun_avg, mun_dev,
                   stations_by_state, top_municipalities, volume_charts,
                   rankings_again, fmt_call, fmt_out, hash_seed, sort_ties>>

Footer ==
    /\ pc = "interpretation"
    /\ pc' = "footer"
    /\ UNCHANGED <<artifact, analysis_results, tabs, raised, df_gas, df_pop,
                   df_vol, df_station, df_price, df_volume, df_again,
                   df_price_again, dq_notes, eff_bounds, scatter,
                   availability, stations_per_mun, state_avg, state_dev,
                   mun_avg, mun_dev, stations_by_state, top_municipalities,
                   volume_charts, rankings_again, fmt_call, fmt_out,
                   hash_seed, sort_ties>>

\* a call of format_volume
FormatVolume ==
    /\ pc = "format"
    /\ \E x \in Amounts, include_label \in BOOLEAN :
          /\ fmt_call' = [name |-> "format_volume", x |-> x,
                          include_label |-> include_label]
          /\ fmt_out' = format_volume(x, include_label)
    /\ pc' = "formatted"
    /\ UNCHANGED <<df_gas, df_pop, df_vol, df_station, df_price, df_again,
                   dq_notes, eff_bounds, state_avg, state_dev, mun_dev,
                   stations_by_state, df_volume, volume_charts,
                   top_municipalities, mun_avg, rankings_again, hash_seed,
                   sort_ties, scatter, availability, stations_per_mun,
                   df_price_again, artifact, analysis_results, tabs, raised>>

\* a call of format_currency
FormatCurrency ==
    /\ pc = "format"
    /\ \E x \in Amounts, include_currency \in BOOLEAN, include_usd \in BOOLEAN :
          /\ fmt_call' = [name |-> "format_currency", x |-> x,
                          include_currency |-> include_currency,
                          include_usd |-> include_usd]
          /\ fmt_out' = format_currency(x, include_currency, include_usd)
    /\ pc' = "formatted"
    /\ UNCHANGED <<df_gas, df_pop, df_vol, df_station, df_price, df_again,
                   dq_notes, eff_bounds, state_avg, state_dev, mun_dev,
                   stations_by_state, df_volume, volume_charts,
                   top_municipalities, mun_avg, rankings_again, hash_seed,
                   sort_ties, scatter, availability, stations_per_mun,
                   df_price_again, artifact, analysis_results, tabs, raised>>

\* main() up to the last chart of stations and prices
Next ==
    \/ PrepareStationData
    \/ ReconcileAgain
    \/ PreparePriceData
    \/ PrepareVolumeData
    \/ BarChartStationsByState
    \/ BarChartTopMunicipalities
    \/ DisplayStatePriceTriplet
    \/ DisplayStatePriceDeviationTriplet
    \/ DisplayMunicipalityPriceTriplet
    \/ DisplayMunicipalityPriceDeviationTriplet

Spec == Init /\ [][Next]_vars

\* main() up to the volume charts
NextVolume == Next \/ VolumeAnalysisCharts

SpecVolume == InitVolume /\ [][NextVolume]_vars

\* main() and the rankings of a second run
NextRanking == NextVolume \/ Rerun \/ RankAgain

SpecRanking == InitRanking /\ [][NextRanking]_vars

\* the calls of the station tab that can end main(), the stations per
\* municipality, and the cleaner run on its own result
NextAggregates ==
    \/ NextVolume
    \/ CleanAgain
    \/ ScatterPopulationVsStations
    \/ ProductAvailabilityStats
    \/ BarChartStationsPerMunicipality

SpecAggregates == InitAggregates /\ [][NextAggregates]_vars

\* main() from the results file to the footer
NextMain ==
    \/ LoadAnalysisResults
    \/ UsePrecomputed
    \/ LoadData
    \/ NextVolume
    \/ Interpretation
    \/ Footer

SpecMain == InitMain /\ [][NextMain]_vars

NextFormat == FormatVolume \/ FormatCurrency

SpecFormat == InitFormat /\ [][NextFormat]_vars

(***************************************************************************)
(* Properties.  The quantities a property compares the pipeline's results  *)
(* with are defined here from the input tables by counting and summing.    *)
(***************************************************************************)
Roster == {df_pop[i].Entidad_Federativa : i \in 1..Len(df_pop)}

\* the number of rows of df that name the state
RowsNaming(df, st) == Cardinality({i \in 1..Len(df) : df[i].state_name = st})

\* the input rows that are the first of their place_id and name the state
StationsIn(st) ==
    {i \in 1..Len(df_gas) :
        /\ df_gas[i].state_name = st
        /\ \A j \in 1..(i - 1) : df_gas[j].place_id # df_gas[i].place_id}

\* C1: once the stations-per-state table is computed from the reconciled
\* table, it has exactly one entry for every state of the roster and no
\* other entry, and the entry of a state with no station has the count 0.
C1_StationsPerStateComplete ==
    stations_by_state # Unset =>
        /\ \A st \in Roster :
              /\ RowsNaming(stations_by_state, st) = 1
              /\ StationsIn(st) = {} =>
                    \A k \in 1..Len(stations_by_state) :
                        stations_by_state[k].state_name = st =>
                            stations_by_state[k].num_stations = [n |-> 0, d |-> 1]
        /\ \A k \in 1..Len(stations_by_state) :
              stations_by_state[k].state_name \in Roster

\* a state without stations is listed with 0 beside a state with stations
C1_Witness ==
    /\ stations_by_state # Unset
    /\ \E a, b \in 1..Len(stations_by_state) :
          /\ stations_by_state[a].num_stations = [n |-> 0, d |-> 1]
          /\ StationsIn(stations_by_state[a].state_name) = {}
          /\ stations_by_state[b].num_stations = [n |-> 2, d |-> 1]

\* the rows of the cleaned table that come from the example's five stations
ExampleCleaned ==
    KeepRows(df_price, {i \in 1..Len(df_price) : df_price[i].place_id # NaN}, 1)

RawColumn(fuel) ==
    [i \in 1..Len(df_station) |-> to_numeric(Cell(df_station[i], fuel))]

\* the k-th smallest of the non-missing values of a column
OrderStat(column, k) ==
    CHOOSE v \in {column[i] : i \in 1..Len(column)} \ {NaN} :
        /\ Cardinality({i \in 1..Len(column) : column[i] # NaN /\ column[i] < v}) < k
        /\ k <= Cardinality({i \in 1..Len(column) : column[i] # NaN /\ column[i] <= v})

\* 1000 times the percentile at permille / 1000 of the non-missing values
Percentile1000(column, permille) ==
    LET size == Cardinality({i \in 1..Len(column) : column[i] # NaN})
        pos  == permille * (size - 1)
        k    == (pos \div 1000) + 1
    IN  IF pos % 1000 = 0 THEN 1000 * OrderStat(column, k)
        ELSE (1000 - (pos % 1000)) * OrderStat(column, k)
               + (pos % 1000) * OrderStat(column, k + 1)

\* x lies in [min(p0.1, 12), max(p99.9, 35)]
InAcceptedRange(column, x) ==
    /\ x >= min_price \/ 1000 * x >= Percentile1000(column, lower_permille)
    /\ x <= max_price \/ 1000 * x <= Percentile1000(column, upper_permille)

AllMissing(fuel) == \A i \in 1..Len(df_station) : RawColumn(fuel)[i] = NaN

\* C4 as stated: for an entirely missing price column the effective bounds
\* are the fixed range [12, 35].
C4_MissingColumnFixedBounds ==
    eff_bounds # Unset =>
        \A f \in 1..Len(Fuels) :
            AllMissing(Fuels[f]) =>
                /\ Cell(eff_bounds, Fuels[f]).lower = [n |-> 12, d |-> 1]
                /\ Cell(eff_bounds, Fuels[f]).upper = [n |-> 35, d |-> 1]

\* C4 as amended: for an entirely missing price column the cleaner does not
\* raise, both effective bounds are NaN (min(nan, 12) and max(nan, 35)
\* return their first argument) and the column stays entirely missing.
C4_MissingColumnNaNBounds ==
    eff_bounds # Unset =>
        \A f \in 1..Len(Fuels) :
            AllMissing(Fuels[f]) =>
                /\ pc # "raised"
                /\ IsNaN(Cell(eff_bounds, Fuels[f]).lower)
                /\ IsNaN(Cell(eff_bounds, Fuels[f]).upper)
                /\ Len(df_price) = Len(df_station)
                /\ \A i \in 1..Len(df_price) : Cell(df_price[i], Fuels[f]) = NaN

\* a table with stations whose premium column is entirely missing was cleaned
C4_Witness ==
    /\ pc = "cleaned"
    /\ AllMissing("premium_price")
    /\ \E i \in 1..Len(df_price) : df_price[i].regular_price # NaN

\* df with every regular price replaced by v
WithRegular(df, v) == [i \in 1..Len(df) |-> [df[i] EXCEPT !.regular_price = v]]

\* C5: the cleaner removes no row and changes no other column: the cleaned
\* table has the rows of its input in the same order, with the same id,
\* state and municipality, and its premium and diesel columns are those it
\* would have if every regular price were valid.
C5_CleanerFrame ==
    pc = "cleaned" =>
        /\ Len(df_price) = Len(df_station)
        /\ \A i \in 1..Len(df_price) :
              /\ df_price[i].place_id = df_station[i].place_id
              /\ df_price[i].state_name = df_station[i].state_name
              /\ df_price[i].municipality_name = df_station[i].municipality_name
        /\ LET valid == prepare_price_data(WithRegular(df_station, 20))
           IN  \A i \in 1..Len(df_price) :
                  /\ i <= Len(valid)
                  /\ df_price[i].premium_price = valid[i].premium_price
                  /\ df_price[i].diesel_price = valid[i].diesel_price

\* a row lost its regular price and kept its premium price
C5_Witness ==
    /\ pc = "cleaned"
    /\ \E i \in 1..Len(df_price) :
          /\ RawColumn("regular_price")[i] # NaN
          /\ df_price[i].regular_price = NaN
          /\ df_price[i].premium_price # NaN

\* C6 as stated: a station whose state name matches no state of the roster
\* is absent from the reconciled table, the pipeline goes on, and the drop
\* is recorded as a data-quality note.
C6_DroppedStationNoted ==
    df_station # Unset =>
        \A i \in 1..Len(df_gas) :
            df_gas[i].state_name \notin Roster =>
                /\ \A k \in 1..Len(df_station) : df_station[k] # df_gas[i]
                /\ pc # "raised"
                /\ dq_notes # <<>>

\* C6, the part the code keeps: the station is absent from the reconciled
\* table and the pipeline goes on.
C6_DroppedNotFatal ==
    df_station # Unset =>
        \A i \in 1..Len(df_gas) :
            df_gas[i].state_name \notin Roster =>
                /\ \A k \in 1..Len(df_station) : df_station[k] # df_gas[i]
                /\ pc # "raised"

\* the first row of df_gas with the given place_id
FirstWithId(id) ==
    df_gas[CHOOSE i \in 1..Len(df_gas) :
              /\ df_gas[i].place_id = id
              /\ \A j \in 1..(i - 1) : df_gas[j].place_id # id]

\* C7: in the reconciled table every non-missing place_id occurs in exactly
\* one row, and that row is the first row of the input with that place_id
\* (its state, municipality and prices).
C7_UniqueFirstWins ==
    df_station # Unset =>
        \A k \in 1..Len(df_station) :
            df_station[k].place_id # NaN =>
                /\ \A m \in 1..Len(df_station) :
                      df_station[m].place_id = df_station[k].place_id => m = k
                /\ df_station[k] = FirstWithId(df_station[k].place_id)

\* two input rows share an id and differ, and the id is in the result
C7_Witness ==
    /\ df_station # Unset
    /\ \E i, j \in 1..Len(df_gas) :
          /\ i < j
          /\ df_gas[i].place_id # NaN
          /\ df_gas[i].place_id = df_gas[j].place_id
          /\ df_gas[i] # df_gas[j]
          /\ \E k \in 1..Len(df_station) : df_station[k] = df_gas[i]

\* C8 as stated: the reconciler applied to its own output, with the same
\* population table, yields that output again, rows and order included.
C8_ReconcilerIdempotent ==
    pc = "reconciled_again" => df_again = df_station

\* C8, the part the code keeps: the same when every input station has a
\* place_id.
C8_IdempotentWithIds ==
    (pc = "reconciled_again" /\ \A i \in 1..Len(df_gas) : df_gas[i].place_id # NaN)
        => df_again = df_station

\* no station of the state has a price for the fuel after cleaning
NoPricedStation(st, fuel) ==
    \A i \in 1..Len(df_price) :
        df_price[i].state_name = st => Cell(df_price[i], fuel) = NaN

\* C9 as stated: in the average-price tables (by state, and the one behind
\* the state deviation) a state with no priced station for the fuel is
\* reported as no data, never as an average of 0.
C9_NoDataNotZero ==
    state_dev # Unset =>
        \A f \in 1..Len(Fuels) :
            /\ \A k \in 1..Len(Cell(state_avg, Fuels[f])) :
                  LET row == Cell(state_avg, Fuels[f])[k]
                  IN  NoPricedStation(row.state_name, Fuels[f]) =>
                          IsNaN(row.average_price)
            /\ \A k \in 1..Len(Cell(state_dev, Fuels[f])) :
                  LET row == Cell(state_dev, Fuels[f])[k]
                  IN  NoPricedStation(row.state_name, Fuels[f]) =>
                          IsNaN(row.average_price)

\* the sum of the fuel's prices over the rows of df_price with index in S
RECURSIVE SumPrices(_, _)
SumPrices(S, fuel) ==
    IF S = {} THEN 0
    ELSE LET i == CHOOSE j \in S : TRUE
         IN  Cell(df_price[i], fuel) + SumPrices(S \ {i}, fuel)

\* the rows of df_price with a price for the fuel, and those of a group
Priced(fuel) == {i \in 1..Len(df_price) : Cell(df_price[i], fuel) # NaN}
PricedInState(st, fuel) == {i \in Priced(fuel) : df_price[i].state_name = st}
PricedInMun(mu, st, fuel) ==
    {i \in PricedInState(st, fuel) : df_price[i].municipality_name = mu}

\* the reported deviation and percentage of a group with priced rows G:
\* mean(G) - mean(all) and (mean(G) - mean(all)) / mean(all) * 100, or no
\* data when the group or the country has no priced station
DeviationIsExact(row, G, fuel) ==
    LET gs == SumPrices(G, fuel)
        gc == Cardinality(G)
        ns == SumPrices(Priced(fuel), fuel)
        nc == Cardinality(Priced(fuel))
    IN  IF gc = 0 \/ nc = 0
        THEN IsNaN(row.price_deviation) /\ IsNaN(row.deviation_pct)
        ELSE /\ row.price_deviation.d > 0
             /\ row.price_deviation.n * (gc * nc)
                   = (gs * nc - ns * gc) * row.price_deviation.d
             /\ row.deviation_pct.d > 0
             /\ row.deviation_pct.n * (gc * ns)
                   = 100 * (gs * nc - ns * gc) * row.deviation_pct.d

\* C10 as stated: for every fuel and every group (state, or municipality
\* of a state) the reported deviation is the group's mean of non-missing
\* prices minus the national average, the mean over all reconciled stations
\* with a price, and the percentage is deviation / nationalAverage * 100.
C10_DeviationFromNationalAverage ==
    mun_dev # Unset =>
        \A f \in 1..Len(Fuels) :
            /\ \A st \in Roster :
                  \E k \in 1..Len(Cell(state_dev, Fuels[f])) :
                      Cell(state_dev, Fuels[f])[k].state_name = st
            /\ \A k \in 1..Len(Cell(state_dev, Fuels[f])) :
                  LET row == Cell(state_dev, Fuels[f])[k]
                  IN  DeviationIsExact(row,
                          PricedInState(row.state_name, Fuels[f]), Fuels[f])
            /\ \A k \in 1..Len(Cell(mun_dev, Fuels[f])) :
                  LET row == Cell(mun_dev, Fuels[f])[k]
                  IN  DeviationIsExact(row,
                          PricedInMun(row.municipality_name, row.state_name,
                                      Fuels[f]), Fuels[f])

\* C10, the part the code keeps: the same for every group that has a
\* station with a price for the fuel, and for every municipality group.
C10_DeviationOfPricedGroups ==
    mun_dev # Unset =>
        \A f \in 1..Len(Fuels) :
            /\ \A k \in 1..Len(Cell(state_dev, Fuels[f])) :
                  LET row == Cell(state_dev, Fuels[f])[k]
                  IN  PricedInState(row.state_name, Fuels[f]) # {} =>
                          DeviationIsExact(row,
                              PricedInState(row.state_name, Fuels[f]), Fuels[f])
            /\ \A k \in 1..Len(Cell(mun_dev, Fuels[f])) :
                  LET row == Cell(mun_dev, Fuels[f])[k]
                  IN  DeviationIsExact(row,
                          PricedInMun(row.municipality_name, row.state_name,
                                      Fuels[f]), Fuels[f])

\* the sum of weights[k] * devs[k]
RECURSIVE WeightedSum(_, _)
WeightedSum(devs, weights) ==
    IF devs = <<>> THEN [n |-> 0, d |-> 1]
    ELSE FAdd(FMul([n |-> Head(weights), d |-> 1], Head(devs)),
              WeightedSum(Tail(devs), Tail(weights)))

\* the distinct stations among the rows of df_price with index in S
StationCount(S) == Cardinality({df_price[i].place_id : i \in S} \ {NaN})

StationsOfState(st) == {i \in 1..Len(df_price) : df_price[i].state_name = st}
StationsOfMun(mu, st) ==
    {i \in StationsOfState(st) : df_price[i].municipality_name = mu}

Zero == [n |-> 0, d |-> 1]

\* C11 as stated: whenever the dataset has a station, for every fuel the sum
\* over all groups of the group's station count times the group's price
\* deviation is zero, for the states and for the municipalities of a state.
C11_StationWeightedSumZero ==
    (mun_dev # Unset /\ StationCount(1..Len(df_price)) > 0) =>
        \A f \in 1..Len(Fuels) :
            LET st_rows == Cell(state_dev, Fuels[f])
                mu_rows == Cell(mun_dev, Fuels[f])
            IN  /\ WeightedSum(PriceDeviations(st_rows),
                       [k \in 1..Len(st_rows) |->
                           StationCount(StationsOfState(st_rows[k].state_name))])
                     = Zero
                /\ WeightedSum(PriceDeviations(mu_rows),
                       [k \in 1..Len(mu_rows) |->
                           StationCount(StationsOfMun(mu_rows[k].municipality_name,
                                                      mu_rows[k].state_name))])
                     = Zero

\* the rows of a deviation table whose group has a station with a price
PricedStateRows(fuel) ==
    KeepRows(Cell(state_dev, fuel),
             {k \in 1..Len(Cell(state_dev, fuel)) :
                 PricedInState(Cell(state_dev, fuel)[k].state_name, fuel) # {}}, 1)
PricedMunRows(fuel) ==
    KeepRows(Cell(mun_dev, fuel),
             {k \in 1..Len(Cell(mun_dev, fuel)) :
                 PricedInMun(Cell(mun_dev, fuel)[k].municipality_name,
                             Cell(mun_dev, fuel)[k].state_name, fuel) # {}}, 1)

\* C11 as amended: for every fuel that some station sells, the sum over the
\* groups with a priced station of (the number of the group's stations with
\* a price for the fuel) times (the group's price deviation) is zero, for
\* the states and, the municipalities being no more than the fifteen their
\* table keeps, for the municipalities of a state.
C11_PricedWeightedSumZero ==
    mun_dev # Unset =>
        \A f \in 1..Len(Fuels) :
            Priced(Fuels[f]) # {} =>
                LET st_rows == PricedStateRows(Fuels[f])
                    mu_rows == PricedMunRows(Fuels[f])
                IN  /\ WeightedSum(PriceDeviations(st_rows),
                           [k \in 1..Len(st_rows) |->
                               Cardinality(PricedInState(st_rows[k].state_name,
                                                         Fuels[f]))])
                         = Zero
                    /\ Len(GroupKeys(df_price)) <= top_n =>
                          WeightedSum(PriceDeviations(mu_rows),
                              [k \in 1..Len(mu_rows) |->
                                  Cardinality(PricedInMun(mu_rows[k].municipality_name,
                                                          mu_rows[k].state_name,
                                                          Fuels[f]))])
                            = Zero

\* two groups of different size deviate from the national average, and a
\* station of one of them does not sell the fuel
C11_Witness ==
    /\ mun_dev # Unset
    /\ \E a, b \in 1..Len(state_dev.regular_price) :
          /\ state_dev.regular_price[a].price_deviation.n < 0
          /\ state_dev.regular_price[b].price_deviation.n > 0
          /\ StationCount(StationsOfState(state_dev.regular_price[a].state_name))
                > Cardinality(PricedInState(state_dev.regular_price[a].state_name,
                                            "regular_price"))
          /\ PricedInState(state_dev.regular_price[a].state_name,
                           "regular_price") # {}

\* the text spells a positive number, thousands separators allowed
SpellsPositive(raw) ==
    /\ \A i \in 1..Len(raw) : raw[i] \in {Digits[k] : k \in 1..10} \cup {","}
    /\ \E i \in 1..Len(raw) : raw[i] \in {Digits[k] : k \in 2..10}

\* the state has a population that is a positive number
HasPopulation(st) ==
    \E i \in 1..Len(df_pop) :
        df_pop[i].Entidad_Federativa = st /\ SpellsPositive(df_pop[i].population)

\* C12 as stated: the volume per capita of a state whose population is 0 or
\* missing is reported as missing: it is never infinite and the computation
\* does not raise.
C12_PerCapitaMissing ==
    volume_charts # Unset =>
        /\ pc # "raised"
        /\ \A k \in 1..Len(volume_charts.per_capita_data) :
              LET row == volume_charts.per_capita_data[k]
              IN  ~HasPopulation(row.state_name) => IsNaN(row.volume_per_capita)

\* the state has no population row, or one without text or with text that
\* is no number
PopulationUnreadable(st) ==
    \A i \in 1..Len(df_pop) :
        df_pop[i].Entidad_Federativa = st =>
            \E c \in 1..Len(df_pop[i].population) + 1 :
                \/ df_pop[i].population = NoText
                \/ /\ c <= Len(df_pop[i].population)
                   /\ df_pop[i].population[c]
                         \notin {Digits[k] : k \in 1..10} \cup {","}

\* C12, the part the code keeps: nothing raises, a state whose population is
\* absent or unreadable gets a missing value, and a state whose population is
\* 0 gets a missing value only when its volume is 0 too, and +inf otherwise.
C12_PerCapitaOfZeroIsInf ==
    volume_charts # Unset =>
        /\ pc # "raised"
        /\ \A k \in 1..Len(volume_charts.per_capita_data) :
              LET row == volume_charts.per_capita_data[k]
              IN  /\ PopulationUnreadable(row.state_name) =>
                        IsNaN(row.volume_per_capita)
                  /\ (~HasPopulation(row.state_name)
                        /\ ~PopulationUnreadable(row.state_name)) =>
                        row.volume_per_capita =
                            IF row.Volumen_Vendido = 0 THEN FNaN
                            ELSE [n |-> 1, d |-> 0]

\* the 2024 records of the state in the prepared volume table
RecordsOf2024(st) ==
    {i \in 1..Len(df_volume) :
        df_volume[i].Anio = 2024 /\ df_volume[i].EntidadFederativa = st}

\* the sum of the numeric volumes of the records with index in S
RECURSIVE SumVolumes(_)
SumVolumes(S) ==
    IF S = {} THEN 0
    ELSE LET i == CHOOSE j \in S : TRUE
         IN  (IF df_volume[i].Volumen_Vendido = NaN THEN 0
              ELSE df_volume[i].Volumen_Vendido) + SumVolumes(S \ {i})

\* the distinct station ids of the state in the reconciled table
StationIds(st) ==
    {df_station[i].place_id : i \in {j \in 1..Len(df_station) :
                                       df_station[j].state_name = st}} \ {NaN}

\* C13: every state with a 2024 volume record has one volume-per-station
\* entry; it is the state's total 2024 volume divided by the number of its
\* distinct station ids when that number is positive, and exactly 0 when the
\* state has no station, be it in the station table or not.
C13_VolumePerStation ==
    volume_charts # Unset =>
        /\ \A i \in 1..Len(df_volume) :
              df_volume[i].Anio = 2024 =>
                  Cardinality({k \in 1..Len(volume_charts.merged_state_vol) :
                      volume_charts.merged_state_vol[k].EntidadFederativa
                          = df_volume[i].EntidadFederativa}) = 1
        /\ \A k \in 1..Len(volume_charts.merged_state_vol) :
              LET row   == volume_charts.merged_state_vol[k]
                  count == Cardinality(StationIds(row.EntidadFederativa))
                  total == SumVolumes(RecordsOf2024(row.EntidadFederativa))
              IN  IF count > 0
                  THEN /\ row.avg_volume_per_station.d > 0
                       /\ row.avg_volume_per_station.n * count
                             = total * row.avg_volume_per_station.d
                  ELSE row.avg_volume_per_station = Zero

\* a state with two stations has a quotient that is no whole number, and a
\* state with volume and no station record has 0
C13_Witness ==
    /\ volume_charts # Unset
    /\ \E a, b \in 1..Len(volume_charts.merged_state_vol) :
          LET with    == volume_charts.merged_state_vol[a]
              without == volume_charts.merged_state_vol[b]
          IN  /\ Cardinality(StationIds(with.EntidadFederativa)) = 2
              /\ with.avg_volume_per_station.d = 2
              /\ without.EntidadFederativa \notin Roster
              /\ without.Volumen_Vendido > 0
              /\ without.avg_volume_per_station = Zero

FuelTypes == {"Regular", "Premium", "Diesel"}

\* the raw labels of the diesel sub-products
DieselLabels == {"Diésel Automotriz", "DUBA", "Diésel Agrícola-Marino"}

\* the 2024 records of the prepared volume table whose raw label is in labels
RecordsLabelled(labels) ==
    {i \in 1..Len(df_volume) :
        df_volume[i].Anio = 2024 /\ df_volume[i].SubProducto \in labels}

\* the volume total_by_fuel reports for the fuel type, 0 when it has no row
ReportedVolume(sp) ==
    SumSeq([k \in 1..Len(volume_charts.total_by_fuel) |->
               IF volume_charts.total_by_fuel[k].SubProducto = sp
               THEN volume_charts.total_by_fuel[k].Volumen_Vendido ELSE 0])

\* C19 as stated: after the mapping every 2024 record has one of the fuel
\* types Regular, Premium and Diesel, and the records labelled "Diésel
\* Automotriz", "DUBA" and "Diésel Agrícola-Marino" are counted under Diesel.
C19_EveryRecordCollapsed ==
    volume_charts # Unset =>
        /\ \A i \in 1..Len(volume_charts.df_volume_agg) :
              volume_charts.df_volume_agg[i].SubProducto \in FuelTypes
        /\ \A k \in 1..Len(volume_charts.total_by_fuel) :
              volume_charts.total_by_fuel[k].SubProducto \in FuelTypes
        /\ ReportedVolume("Diesel") = SumVolumes(RecordsLabelled(DieselLabels))

\* C19, the part the code keeps: the records labelled "Diésel Automotriz",
\* "DUBA" and "Diésel Agricola-Marino" (no accent on the i) are counted
\* under Diesel, and every other label is a fuel type of its own.
C19_MappedLabelsCollapsed ==
    volume_charts # Unset =>
        /\ ReportedVolume("Diesel") =
              SumVolumes(RecordsLabelled({"Diésel Automotriz", "DUBA",
                                          "Diésel Agricola-Marino"}))
        /\ \A sp \in {"Regular", "Premium", "Diésel Agrícola-Marino"} :
              ReportedVolume(sp) = SumVolumes(RecordsLabelled({sp}))

\* the fuel column of a fuel type, and the fuel type of a raw label
FuelColumn(sp) ==
    CASE sp = "Regular" -> "regular_price"
      [] sp = "Premium" -> "premium_price"
      [] sp = "Diesel"  -> "diesel_price"

\* value = volume * (the fuel's national average price), no data when no
\* station sells the fuel
IsVolumeTimesAverage(value, volume, fuel) ==
    IF Priced(fuel) = {} THEN IsNaN(value)
    ELSE /\ value.d > 0
         /\ value.n * Cardinality(Priced(fuel))
               = volume * SumPrices(Priced(fuel), fuel) * value.d

\* the sum of the market values of all the rows, missing ones included
StrictTotal(rows) ==
    WeightedSum(MarketValues(rows), [k \in 1..Len(rows) |-> 1])

\* C20 as stated: each fuel type with 2024 volume has a market value, its
\* total 2024 volume times the fuel's national average price, and the
\* total market value is the sum of these products over all the fuel
\* types with 2024 volume: none is left out of it.
C20_TotalOverAllFuels ==
    volume_charts # Unset =>
        /\ \A sp \in FuelTypes :
              RecordsLabelled({sp} \cup (IF sp = "Diesel" THEN DieselLabels ELSE {})) # {}
                  => \E k \in 1..Len(volume_charts.volume_2024) :
                        /\ volume_charts.volume_2024[k].SubProducto = sp
                        /\ IsVolumeTimesAverage(
                              volume_charts.volume_2024[k].Market_Value_2024,
                              SumVolumes(RecordsLabelled({sp} \cup
                                  (IF sp = "Diesel" THEN DieselLabels ELSE {}))),
                              FuelColumn(sp))
        /\ volume_charts.total_market_value = StrictTotal(volume_charts.volume_2024)

\* C20, the part the code keeps: a row of one of the three fuel types has
\* the market value volume times national average price, and when every row
\* has a market value the total is their sum.
C20_TotalOverPricedFuels ==
    volume_charts # Unset =>
        /\ \A k \in 1..Len(volume_charts.volume_2024) :
              LET row == volume_charts.volume_2024[k]
              IN  IF row.SubProducto \in FuelTypes
                  THEN IsVolumeTimesAverage(row.Market_Value_2024,
                           row.Volumen_Vendido, FuelColumn(row.SubProducto))
                  ELSE IsNaN(row.Market_Value_2024)
        /\ (\A k \in 1..Len(volume_charts.volume_2024) :
                ~IsNaN(volume_charts.volume_2024[k].Market_Value_2024))
              => volume_charts.total_market_value
                     = StrictTotal(volume_charts.volume_2024)

\* diesel has volume and no station sells diesel: the total is the market
\* value of the other fuel alone
C20_DieselLeftOut ==
    /\ volume_charts # Unset
    /\ df_gas = NoDieselExample
    /\ \E a, b \in 1..Len(volume_charts.volume_2024) :
          /\ volume_charts.volume_2024[a].SubProducto = "Diesel"
          /\ volume_charts.volume_2024[a].Volumen_Vendido > 0
          /\ volume_charts.volume_2024[b].SubProducto = "Regular"
          /\ volume_charts.total_market_value
                = volume_charts.volume_2024[b].Market_Value_2024

\* the number cents / 100 with two decimals, its trailing zeros and a
\* trailing point stripped, between the texts before and after it
Compact(before, cents, after) ==
    before \o rstrip(rstrip(Fixed2(cents), "0"), ".") \o after

CalledVolume == fmt_call # Unset /\ fmt_call.name = "format_volume"
CalledCurrency == fmt_call # Unset /\ fmt_call.name = "format_currency"

\* C14 as stated: format_volume renders the value with two decimals and
\* strips the trailing zeros and a trailing point from the number before the
\* suffix: 1_500_000_000 gives "1.5B liters" and 2_000_000 "2M liters".
C14_VolumeStripsZeros ==
    (CalledVolume /\ fmt_call.include_label) =>
        /\ fmt_out = IF fmt_call.x >= Billion
                     THEN Compact(<<>>, Round(fmt_call.x, Billion \div 100), <<"B">>)
                              \o Liters
                     ELSE Compact(<<>>, fmt_call.x, <<"M">>) \o Liters
        /\ fmt_call.x = 150000 =>
              fmt_out = <<"1", ".", "5", "B", " ", "l", "i", "t", "e", "r", "s">>
        /\ fmt_call.x = 200 =>
              fmt_out = <<"2", "M", " ", "l", "i", "t", "e", "r", "s">>

\* C14, what the code does: the suffix is appended before the stripping, so
\* nothing is stripped and the two decimals stay: 1_500_000_000 gives
\* "1.50B liters" and 2_000_000 "2.00M liters".
C14_VolumeKeepsTwoDecimals ==
    (CalledVolume /\ fmt_call.include_label) =>
        /\ fmt_out[Len(fmt_out) - Len(Liters) - 3] = "."
        /\ fmt_call.x = 150000 =>
              fmt_out = <<"1", ".", "5", "0", "B", " ", "l", "i", "t", "e", "r", "s">>
        /\ fmt_call.x = 200 =>
              fmt_out = <<"2", ".", "0", "0", "M", " ", "l", "i", "t", "e", "r", "s">>

\* C15 as stated: format_currency renders a value of at least 1e12 in
\* trillions with the trailing zeros stripped: 1_000_000_000_000 with
\* include_currency gives "$1T MXN".
C15_TrillionsStripZeros ==
    (CalledCurrency /\ fmt_call.x >= Trillion /\ fmt_call.include_currency
        /\ ~fmt_call.include_usd) =>
        /\ fmt_out = Compact(<<"$">>, Round(fmt_call.x, Trillion \div 100), <<"T">>)
                        \o MXN
        /\ fmt_call.x = Trillion => fmt_out = <<"$", "1", "T", " ", "M", "X", "N">>

\* C15, what the code does: a value of at least 1e12 is rendered in
\* trillions with both decimals: 1_000_000_000_000 gives "$1.00T MXN".
C15_TrillionsKeepTwoDecimals ==
    (CalledCurrency /\ fmt_call.x >= Trillion /\ fmt_call.include_currency
        /\ ~fmt_call.include_usd) =>
        /\ fmt_out[Len(fmt_out) - Len(MXN)] = "T"
        /\ fmt_out[Len(fmt_out) - Len(MXN) - 3] = "."
        /\ fmt_call.x = Trillion =>
              fmt_out = <<"$", "1", ".", "0", "0", "T", " ", "M", "X", "N">>

\* the suffix of the USD part of a text that ends with it
UsdSuffix(text) == text[Len(text) - 1]

\* the suffix the amount in dollars, x / 20, has by its own magnitude
OwnUsdSuffix(x) ==
    IF x >= usd_rate * Trillion THEN "T"
    ELSE IF x >= usd_rate * Billion THEN "B" ELSE "M"

\* C16 as stated: the USD part is the amount divided by 20 with the suffix
\* of its own magnitude, whatever the suffix of the MXN part: 1e9 pesos are
\* 5e7 dollars and the USD part is in millions.
C16_UsdSuffixOfItsOwn ==
    (CalledCurrency /\ fmt_call.include_usd) =>
        /\ UsdSuffix(fmt_out) = OwnUsdSuffix(fmt_call.x)
        /\ fmt_call.x = Billion => UsdSuffix(fmt_out) = "M"

\* C16, what the code does: from 1e9 pesos up to 1e12 the USD part is in
\* billions like the MXN part (1e9 pesos give "(USD 0.05B)"); below 1e9 it
\* is in millions and from 1e12 on it is in billions or trillions by the
\* dollars themselves.
C16_UsdSuffixFollowsMxnTier ==
    (CalledCurrency /\ fmt_call.include_usd) =>
        /\ UsdSuffix(fmt_out) =
              IF fmt_call.x >= Trillion THEN OwnUsdSuffix(fmt_call.x)
              ELSE IF fmt_call.x >= Billion THEN "B" ELSE "M"
        /\ (fmt_call.x = Billion /\ ~fmt_call.include_currency) =>
              fmt_out = <<"$", "1", ".", "0", "0", "B", " ",
                          "(", "U", "S", "D", " ", "0", ".", "0", "5", "B", ")">>


\* the rows of the reconciled station table that name the pair
RowsOfPair(mu, st) ==
    {i \in 1..Len(df_station) :
        /\ df_station[i].municipality_name = mu
        /\ df_station[i].state_name = st}

\* the pairs of municipality and state the reconciled stations name
Pairs ==
    {<<df_station[i].municipality_name, df_station[i].state_name>> :
        i \in {j \in 1..Len(df_station) : df_station[j].municipality_name # NoName}}

\* the distinct station ids the rows of the pair carry
IdsOfPair(mu, st) == {df_station[i].place_id : i \in RowsOfPair(mu, st)} \ {NaN}

EntriesOf(mu, st) ==
    {k \in 1..Len(top_municipalities) :
        /\ top_municipalities[k].municipality_name = mu
        /\ top_municipalities[k].state_name = st}

\* C18: the ranking of municipalities by stations has one entry for each
\* pair of municipality and state the stations name (the pairs being no
\* more than the ranking keeps), so a name borne by municipalities of two
\* states has an entry for each, and the count of an entry is the number of
\* distinct station ids among the rows of its own pair.
C18_CountsKeyedByPair ==
    top_municipalities # Unset =>
        /\ \A k \in 1..Len(top_municipalities) :
              /\ <<top_municipalities[k].municipality_name,
                   top_municipalities[k].state_name>> \in Pairs
              /\ top_municipalities[k].num_stations =
                    [n |-> Cardinality(IdsOfPair(top_municipalities[k].municipality_name,
                                                 top_municipalities[k].state_name)),
                     d |-> 1]
        /\ Cardinality(Pairs) <= top_n =>
              \A p \in Pairs : Cardinality(EntriesOf(p[1], p[2])) = 1

\* a name borne by municipalities of two states, one station in each
C18_Witness ==
    /\ top_municipalities # Unset
    /\ \E mu \in {p[1] : p \in Pairs} :
          \E s1 \in Roster, s2 \in Roster :
             /\ s1 # s2
             /\ Cardinality(IdsOfPair(mu, s1)) = 1
             /\ Cardinality(IdsOfPair(mu, s2)) = 1
             /\ Cardinality(EntriesOf(mu, s1)) = 1
             /\ Cardinality(EntriesOf(mu, s2)) = 1

\* the three rankings as the first run drew them
RankingsDrawn ==
    [top_municipalities |-> top_municipalities, mun_avg |-> mun_avg,
     mun_dev |-> mun_dev]

TiedAtCutOff(ranking, metric, all_metrics) ==
    /\ Len(all_metrics) > top_n
    /\ Len(ranking) = top_n
    /\ metric[1] = metric[2]
    /\ Cardinality({k \in 1..Len(all_metrics) : all_metrics[k] = metric[1]})
          > Cardinality({k \in 1..Len(metric) : metric[k] = metric[1]})

IdsIn(df) == {df[i].place_id : i \in 1..Len(df)} \ {NaN}

\* C27: duplicates are dropped before the join with the roster: the ids of
\* the reconciled table are exactly the ids whose first input row names a
\* state of the roster, so an id whose first row names another state is
\* absent even when a later row of it names a state of the roster.
C27_FirstRowDecides ==
    df_station # Unset =>
        IdsIn(df_station) =
            {id \in IdsIn(df_gas) : FirstWithId(id).state_name \in Roster}

\* an id whose first row names a state outside the roster and whose later
\* row names a state of the roster, reconciled
C27_Witness ==
    /\ df_station # Unset
    /\ \E id \in IdsIn(df_gas) :
          /\ FirstWithId(id).state_name \notin Roster
          /\ \E j \in 1..Len(df_gas) :
                df_gas[j].place_id = id /\ df_gas[j].state_name \in Roster
          /\ id \notin IdsIn(df_station)

\* C24 as stated: no step changes a table it was given: the three loaded
\* tables stay as load_data returned them and the reconciled station table
\* stays as the reconciler returned it.
C24_NoStepMutatesItsInput ==
    [][/\ df_gas' = df_gas
       /\ df_pop' = df_pop
       /\ df_vol' = df_vol
       /\ df_station # Unset => df_station' = df_station]_vars

\* C24, the part the code keeps: the station and population tables and the
\* reconciled table stay as they were, and the loaded volume table changes
\* in the call of prepare_volume_data only, where its volumes that are no
\* numbers become missing.
C24_OnlyVolumeTableMutated ==
    [][/\ df_gas' = df_gas
       /\ df_pop' = df_pop
       /\ df_station # Unset => df_station' = df_station
       /\ df_vol' # df_vol =>
             /\ pc = "cleaned"
             /\ df_vol' = df_volume'
             /\ \E i \in 1..Len(df_vol) : df_vol[i].Volumen_Vendido = NonNumeric]_vars

\* the mean of the fuel's prices over the priced stations of a municipality
\* and over all priced stations, missing when there is none
MeanPrice(mu, st, fuel) ==
    IF PricedInMun(mu, st, fuel) = {} THEN FNaN
    ELSE Frac(SumPrices(PricedInMun(mu, st, fuel), fuel),
              Cardinality(PricedInMun(mu, st, fuel)))

NationalMean(fuel) ==
    IF Priced(fuel) = {} THEN FNaN
    ELSE Frac(SumPrices(Priced(fuel), fuel), Cardinality(Priced(fuel)))

\* the three ranking metrics of the groups
CountMetric == [p \in Pairs |-> [n |-> Cardinality(IdsOfPair(p[1], p[2])), d |-> 1]]
PriceMetric(fuel) == [p \in Pairs |-> MeanPrice(p[1], p[2], fuel)]
DeviationMetric(fuel) ==
    [p \in Pairs |-> FAbs(FSub(MeanPrice(p[1], p[2], fuel), NationalMean(fuel)))]

KeptBy(ranking) ==
    {<<ranking[k].municipality_name, ranking[k].state_name>> : k \in 1..Len(ranking)}

\* the ranking is of at most top_n distinct groups, none of them with a
\* smaller metric than a group left out, and one without a metric is among
\* them only when fewer than top_n groups have one
IsTopOf(ranking, metric) ==
    /\ Len(ranking) <= top_n
    /\ KeptBy(ranking) \subseteq Pairs
    /\ Cardinality(KeptBy(ranking)) = Len(ranking)
    /\ \A r \in KeptBy(ranking), g \in Pairs \ KeptBy(ranking) :
          IsNaN(metric[g]) \/ FLe(metric[g], metric[r])
    /\ \A r \in KeptBy(ranking) :
          IsNaN(metric[r]) =>
              Cardinality({g \in Pairs : ~IsNaN(metric[g])}) < top_n

\* C25: each of the rankings of municipalities (by stations, by average
\* price and by absolute deviation of each fuel) returns at most 15 groups,
\* each with a metric no smaller than that of any group left out, and
\* returns a group without a metric only when fewer than 15 groups have one.
C25_RankingKeepsTheLargest ==
    mun_dev # Unset =>
        /\ IsTopOf(top_municipalities, CountMetric)
        /\ \A f \in 1..Len(Fuels) :
              /\ IsTopOf(Cell(mun_avg, Fuels[f]), PriceMetric(Fuels[f]))
              /\ IsTopOf(Cell(mun_dev, Fuels[f]), DeviationMetric(Fuels[f]))

\* more groups than a ranking keeps: the ranking by regular price leaves
\* out groups of a smaller price, the ranking by premium price leaves out
\* the groups without one, and the ranking by diesel price, no group
\* having one, returns groups without a metric
C25_Witness ==
    /\ mun_dev # Unset
    /\ Cardinality(Pairs) > top_n
    /\ Len(top_municipalities) = top_n
    /\ \E r \in KeptBy(mun_avg.regular_price), g \in Pairs \ KeptBy(mun_avg.regular_price) :
          FLt(PriceMetric("regular_price")[g], PriceMetric("regular_price")[r])
    /\ \A r \in KeptBy(mun_avg.premium_price) : ~IsNaN(PriceMetric("premium_price")[r])
    /\ \E g \in Pairs : IsNaN(PriceMetric("premium_price")[g])
    /\ \E r \in KeptBy(mun_dev.diesel_price) : IsNaN(DeviationMetric("diesel_price")[r])

\* the states the rows of the state-level tables name
StatesOfAverages(fuel) ==
    {Cell(state_avg, fuel)[k].state_name : k \in 1..Len(Cell(state_avg, fuel))}
StatesOfStationCounts ==
    {stations_by_state[k].state_name : k \in 1..Len(stations_by_state)}
StatesOfVolumePerStation ==
    {volume_charts.merged_state_vol[k].EntidadFederativa :
        k \in 1..Len(volume_charts.merged_state_vol)}
StatesOfVolumePerCapita ==
    {volume_charts.per_capita_data[k].state_name :
        k \in 1..Len(volume_charts.per_capita_data)}

\* C21 as stated: the tables of stations per state, of the average price by
\* state of each fuel, of the volume per station by state and of the volume
\* per capita by state each have an entry for every state of the roster,
\* also for a state without a station or without a volume record of 2024.
C21_EveryStateInEveryTable ==
    volume_charts # Unset =>
        /\ Roster \subseteq StatesOfStationCounts
        /\ \A f \in 1..Len(Fuels) : Roster \subseteq StatesOfAverages(Fuels[f])
        /\ Roster \subseteq StatesOfVolumePerStation
        /\ Roster \subseteq StatesOfVolumePerCapita

\* C21, what the code does: the station and price tables list the roster,
\* the volume tables list the states that have a volume record of 2024,
\* of the roster or not.
C21_VolumeTablesListRecordedStates ==
    volume_charts # Unset =>
        /\ StatesOfStationCounts = Roster
        /\ \A f \in 1..Len(Fuels) : StatesOfAverages(Fuels[f]) = Roster
        /\ StatesOfVolumePerStation =
              {df_volume[i].EntidadFederativa :
                  i \in {j \in 1..Len(df_volume) : df_volume[j].Anio = 2024}}
        /\ StatesOfVolumePerCapita = StatesOfVolumePerStation

\* C22 as stated: no aggregate raises for a reason of data quality: the
\* scatter of population against stations and the availability figures
\* return a result whatever the tables hold, a station table without a
\* station and a population that is missing or no number included.
C22_NoAggregateRaises ==
    /\ scatter # Unset => scatter.raised = ""
    /\ availability # Unset => availability.raised = ""

\* the population row has no text, or text that is no number
RowUnreadable(i) ==
    \/ df_pop[i].population = NoText
    \/ \E c \in 1..Len(df_pop[i].population) :
          df_pop[i].population[c] \notin {Digits[k] : k \in 1..10} \cup {","}

\* C22, what the code does: the scatter raises ValueError exactly when the
\* population of a state is missing or no number, the availability figures
\* raise ZeroDivisionError exactly when the reconciled table has no
\* station, and main() ends there; the stations per municipality never
\* raise, a state without a station getting a missing average.
C22_RaisesOnMissingData ==
    /\ scatter # Unset =>
          /\ scatter.raised \in {"", "ValueError"}
          /\ scatter.raised = "ValueError" <=> \E i \in 1..Len(df_pop) : RowUnreadable(i)
          /\ scatter.raised # "" => pc = "raised"
    /\ availability # Unset =>
          /\ availability.raised \in {"", "ZeroDivisionError"}
          /\ availability.raised = "ZeroDivisionError" <=> IdsIn(df_station) = {}
          /\ availability.raised # "" => pc = "raised"
    /\ stations_per_mun # Unset =>
          \A k \in 1..Len(stations_per_mun) :
              stations_per_mun[k].total_stations = Zero =>
                  IsNaN(stations_per_mun[k].avg_stations_per_municipality)

\* C21, the table of stations per municipality: every state of the roster
\* has one entry
C21_StationsPerMunicipalityComplete ==
    stations_per_mun # Unset =>
        \A st \in Roster : RowsNaming(stations_per_mun, st) = 1

\* the number of stations the availability figures give for the fuel
Selling(fuel) == Cell(availability.value, fuel)

\* C29 as stated: for each fuel the number of stations the availability
\* figures report as selling it is the number of stations whose price
\* enters the national average of the fuel; a station whose raw price was
\* no number or was rejected as an outlier is in neither.
C29_SellingIsPriced ==
    (availability # Unset /\ availability.raised = "") =>
        \A f \in 1..Len(Fuels) :
            Selling(Fuels[f]) = Cardinality(Priced(Fuels[f]))

\* the reconciled stations with any raw value for the fuel
WithRawPrice(fuel) ==
    IdsIn(KeepRows(df_station,
              {i \in 1..Len(df_station) : Cell(df_station[i], fuel) # NaN}, 1))

\* C29, what the code does: the availability figures count the stations
\* with any raw value for the fuel in the reconciled table, those whose
\* price is no number or was rejected included, so they are never below
\* the number of stations with an id that enter the national average.
C29_SellingIsRawPrice ==
    (availability # Unset /\ availability.raised = "") =>
        \A f \in 1..Len(Fuels) :
            /\ Selling(Fuels[f]) = Cardinality(WithRawPrice(Fuels[f]))
            /\ Selling(Fuels[f]) >=
                  Cardinality({df_price[i].place_id : i \in Priced(Fuels[f])} \ {NaN})

\* the sum of a column of counts
RECURSIVE SumCounts(_)
SumCounts(df) ==
    IF df = <<>> THEN 0 ELSE Head(df).num_stations.n + SumCounts(Tail(df))

\* C30: the station counts of the states of the roster add up to the
\* national total of distinct stations that the availability figures and
\* the national volume per station use, which is the number of distinct
\* ids of the reconciled table: the placeholder row of a state without a
\* station adds nothing to a count.
C30_StateCountsAddUp ==
    /\ (availability # Unset /\ availability.raised = "") =>
          /\ availability.value.total_stations = SumCounts(stations_by_state)
          /\ availability.value.total_stations = Cardinality(IdsIn(df_station))
    /\ volume_charts # Unset =>
          /\ volume_charts.total_stations = SumCounts(stations_by_state)
          /\ volume_charts.total_stations = Cardinality(IdsIn(df_station))

\* the national volume per station is computed over two stations, all of
\* one state, the other state of the roster having a placeholder row only
C30_Witness ==
    /\ volume_charts # Unset
    /\ volume_charts.total_stations = 2
    /\ \E k \in 1..Len(stations_by_state) :
          stations_by_state[k].num_stations = Zero
    /\ \E i \in 1..Len(df_station) : df_station[i] = Placeholder(df_station[i].state_name)

\* C28 as stated: cleaning the cleaned prices again changes nothing.
C28_CleanerIdempotent ==
    df_price_again # Unset => df_price_again = df_price

\* every price of the table lies within the fixed range
WithinFixedRange(df) ==
    \A i \in 1..Len(df) : \A f \in 1..Len(Fuels) :
        Cell(df[i], Fuels[f]) # NaN =>
            (min_price <= Cell(df[i], Fuels[f]) /\ Cell(df[i], Fuels[f]) <= max_price)

\* C28, what the code does: the second pass takes the percentiles of the
\* prices the first pass kept, so it can blank further prices; it never
\* alters or restores one, and it changes nothing when every kept price
\* lies within the fixed range.
C28_SecondPassOnlyBlanks ==
    df_price_again # Unset =>
        /\ Len(df_price_again) = Len(df_price)
        /\ \A i \in 1..Len(df_price) :
              \/ df_price_again[i] = df_price[i]
              \/ \E f \in 1..Len(Fuels) :
                    /\ Cell(df_price[i], Fuels[f]) # NaN
                    /\ Cell(df_price[i], Fuels[f]) < min_price
                          \/ Cell(df_price[i], Fuels[f]) > max_price
        /\ \A i \in 1..Len(df_price) : \A f \in 1..Len(Fuels) :
              Cell(df_price_again[i], Fuels[f]) \in {NaN, Cell(df_price[i], Fuels[f])}
        /\ WithinFixedRange(df_price) => df_price_again = df_price

\* a second pass that blanks a price the first pass kept
C28_SecondPassBlanks ==
    /\ df_price_again # Unset
    /\ \E i \in 1..Len(df_price) :
          /\ df_price[i].regular_price = 11
          /\ df_price_again[i].regular_price = NaN

\* nothing was loaded, reconciled, cleaned, normalised or aggregated
NothingComputed ==
    /\ df_gas = Unset /\ df_pop = Unset /\ df_vol = Unset
    /\ df_station = Unset /\ df_price = Unset /\ df_volume = Unset
    /\ stations_by_state = Unset /\ top_municipalities = Unset
    /\ state_avg = Unset /\ state_dev = Unset
    /\ mun_avg = Unset /\ mun_dev = Unset
    /\ scatter = Unset /\ availability = Unset /\ stations_per_mun = Unset
    /\ volume_charts = Unset
    /\ tabs = {}

\* the tables and charts main has computed when the volume charts are done
PipelineRan ==
    /\ df_pop # Unset /\ df_vol # Unset
    /\ df_station = prepare_station_data(df_gas, df_pop)
    /\ df_price = prepare_price_data(df_station)
    /\ df_volume = prepare_volume_data(df_vol)
    /\ stations_by_state = bar_chart_stations_by_state(df_station, df_pop)
    /\ top_municipalities = bar_chart_top_municipalities(df_station)
    /\ state_avg # Unset /\ state_dev # Unset
    /\ mun_avg # Unset /\ mun_dev # Unset
    /\ volume_charts # Unset

\* C23: when the results file exists and loads to a non-empty record, main
\* takes the branch of the record and nothing is loaded, reconciled,
\* cleaned, normalised or aggregated; when the file does not exist,
\* load_analysis_results returns None, main takes the branch of the CSV
\* files, the three tables are loaded and every step up to the volume
\* charts has run when the volume charts are done.
C23_RecordShortCircuits ==
    /\ (artifact.exists /\ artifact.keys # {}) =>
          /\ NothingComputed
          /\ pc \in {"main", "branch", "precomputed", "raised"}
          /\ pc # "main" => analysis_results = Record(artifact.keys)
    /\ ~artifact.exists =>
          /\ pc # "main" => analysis_results = None
          /\ pc # "precomputed"
          /\ pc \notin {"main", "branch"} =>
                (df_pop # Unset /\ df_vol # Unset)
          /\ pc \in {"volume_analysis", "interpretation", "footer"} =>
                PipelineRan

\* main loaded a record with one analysis and took its branch
C23_Witness ==
    /\ artifact.exists /\ artifact.keys # {}
    /\ analysis_results = Record(artifact.keys)
    /\ pc = "precomputed"

\* main found no file and finished the pipeline of the CSV files
C23_WitnessAbsent ==
    /\ ~artifact.exists
    /\ pc = "footer"
    /\ Len(df_station) >= 2

\* C26 as stated: on either branch main reaches the interpretation and
\* the footer and no name it uses after the branch is unbound.
C26_NoErrorAfterBranch ==
    raised # "UnboundLocalError"

\* C26, what the code does: tab_interpretation is bound by st.tabs on the
\* branch of the CSV files only; after the branch of the record the
\* interpretation raises UnboundLocalError and the footer is not reached,
\* after the volume charts of the other branch both are reached.
C26_UnboundAfterRecord ==
    /\ pc = "raised" =>
          (raised = "UnboundLocalError" /\ Truthy(analysis_results) /\ tabs = {})
    /\ pc \in {"interpretation", "footer"} =>
          (~Truthy(analysis_results) /\ tabs = TabNames /\ raised = "")
    /\ (pc \notin {"main", "branch"} /\ Truthy(analysis_results)) =>
          pc \in {"precomputed", "raised"}

\* the footer is reached on the branch of the CSV files
C26_FooterReached ==
    pc = "footer" /\ ~Truthy(analysis_results) /\ analysis_results # None

====
